---- MODULE Spec2Model ----
(***************************************************************************)
(* Time-slotted, frequency-hopping radio protocol of the split keyboard:   *)
(* the dongle frame runner, the two keyboard-half frame runners and the    *)
(* air between them, as a discrete-event model in microseconds.            *)
(*                                                                         *)
(* Every device is a process whose position (pc) is the await it is parked *)
(* at; one action is the code that runs between two awaits.                *)
(***************************************************************************)
EXTENDS Integers, Sequences, FiniteSets, TLC

(***************************************************************************)
(* Program constants                                                       *)
(***************************************************************************)

\* ChannelHopping::CHANNEL_HOPPING_SEQUENCE (167 entries)
CHANNEL_HOPPING_SEQUENCE ==
  << 5, 38, 24, 36, 15, 26, 51, 7, 63, 82, 11, 40, 65, 21, 80, 81, 32, 74, 50, 48, 70, 42, 76,
     8, 20, 75, 53, 77, 6, 79, 46, 71, 62, 14, 29, 19, 2, 17, 59, 35, 83, 56, 34, 61, 22, 66,
     54, 67, 44, 78, 52, 68, 4, 45, 27, 31, 18, 0, 60, 43, 12, 55, 13, 9, 58, 16, 47, 10, 25,
     72, 3, 33, 69, 1, 39, 57, 28, 73, 37, 64, 49, 23, 41, 30,
     11, 23, 66, 0, 21, 74, 52, 28, 45, 14, 65, 18, 30, 43, 57, 71, 31, 63, 2, 50, 1, 42, 10,
     72, 9, 76, 33, 64, 54, 49, 62, 15, 44, 25, 51, 40, 58, 68, 37, 67, 22, 47, 19, 55, 13, 36,
     17, 56, 27, 46, 70, 20, 78, 24, 79, 59, 39, 81, 8, 34, 82, 41, 69, 38, 26, 3, 75, 35, 60,
     77, 7, 48, 4, 32, 5, 80, 53, 6, 61, 29, 12, 83, 16 >>

\* CHANNEL_HOPPING_SEQUENCE.len()
SeqLen == Len(CHANNEL_HOPPING_SEQUENCE)

\* highest channel of the band the sequence draws from (0-83)
BAND_MAX == 83

\* width of ChannelHopping::state (u8)
U8 == 256

\* SLOT_SIZE = TimerDurationU64::micros(2000)
SLOT_SIZE == 2000

\* the dongle stops receiving 200.micros() before the next slot
GUARD_US == 200

\* the keyboard waits for the ack until slot_start_time + 1800.micros()
ACK_WAIT_US == 1800

\* the dongle's first beacon is scheduled at Mono::now() + 200.millis()
START_DELAY_US == 200000

\* Radio::set_freqeuency panics above this value
MAX_FREQUENCY == 100

\* Packet::PHY_HDR, index of the header in the buffer
PHY_HDR == 0

\* Packet::CAPACITY and Packet::CRC
CAPACITY == 125
CRC_LEN == 2


\* PHY configuration of Radio::init: Nrf_2Mbit, 8 bit preamble, 4 + 1 address
\* bytes, 7 bit length field, fast ramp-up (40 us on the nRF52840).
BITS_PER_US == 2
PREAMBLE_BITS == 8
ADDRESS_BITS == 40
LENGTH_BITS == 7
TX_RAMP_US == 40

(***************************************************************************)
(* Bounds of the model                                                     *)
(***************************************************************************)

\* number of dongle frames explored
MaxFrames == 1

\* number of frames lost or corrupted by the channel
MaxFaults == 1

\* number of frames sent by transmitters outside the system
MaxForeign == 2

(***************************************************************************)
(* Devices                                                                 *)
(***************************************************************************)

Dongle == "dongle"
Right == "right"
Left == "left"
Foreign == "foreign"
Half == {Right, Left}
Dev == {Dongle} \cup Half
Sender == Dev \cup {Foreign}

\* a sentinel of one byte, the selector state of a slot on the beacon channel
SYNC_PAYLOAD_ONE_BYTE == << SeqLen - 9 >>

\* sync sentinel, ack sentinel
SYNC_PAYLOAD == << 0, 1, 2, 3, 4, 5, 6, 7, 8, 9 >>
ACK_PAYLOAD == << 10, 11, 12, 13, 14, 15, 16, 17, 18, 19 >>

\* a payload heard from a transmitter outside the system
FOREIGN_PAYLOAD == << 66 >>

(***************************************************************************)
(* ChannelHopping                                                          *)
(***************************************************************************)

\* ChannelHopping::new
new == 0

current_channel(state) == CHANNEL_HOPPING_SEQUENCE[state + 1]

\* a next_channel that does not wrap at the end of the sequence
next_channel_no_wrap(state) == (state + 1) % U8

next_channel(state) == ((state + 1) % U8) % (SeqLen % U8)

is_initial_state(state) == state = 0

reset == 0

\* ChannelHopping of dongle_tasks.rs: its CHANNEL_HOPPING_SEQUENCE (100
\* entries) and its methods; it has no reset
DongleTasks_CHANNEL_HOPPING_SEQUENCE ==
  << 84, 47, 37, 45, 74, 44, 13, 75, 67, 28, 65, 51, 68, 7, 89, 9, 16, 63, 8, 87, 23, 99, 57,
     69, 12, 26, 83, 30, 78, 33, 97, 77, 41, 34, 42, 86, 70, 95, 6, 73, 88, 2, 72, 59, 4, 25,
     53, 96, 20, 5, 39, 92, 82, 71, 29, 43, 1, 94, 32, 17, 60, 90, 56, 27, 11, 55, 62, 79, 64,
     98, 14, 52, 100, 93, 76, 46, 85, 58, 18, 3, 15, 40, 48, 10, 19, 61, 54, 80, 36, 21, 81, 38,
     22, 49, 91, 31, 66, 35, 24, 50 >>

DongleTasks_SeqLen == Len(DongleTasks_CHANNEL_HOPPING_SEQUENCE)

\* a current_channel that reads the entry after the selected one
DongleTasks_current_channel_next_entry(state) ==
  DongleTasks_CHANNEL_HOPPING_SEQUENCE[((state + 1) % DongleTasks_SeqLen) + 1]

DongleTasks_current_channel(state) == DongleTasks_CHANNEL_HOPPING_SEQUENCE[state + 1]

DongleTasks_next_channel(state) == ((state + 1) % U8) % (DongleTasks_SeqLen % U8)

DongleTasks_is_initial_state(state) == state = 0

(***************************************************************************)
(* Packet, seen through its payload view (Deref)                           *)
(***************************************************************************)

\* assert!(src.len() <= CAPACITY), then the payload is src
copy_from_slice(src) == CASE Len(src) <= CAPACITY -> src

(***************************************************************************)
(* Timing of one frame on the air                                          *)
(***************************************************************************)

\* bits on the air for a payload of n bytes (preamble, address, length, payload, CRC)
FrameBits(n) == PREAMBLE_BITS + ADDRESS_BITS + LENGTH_BITS + 8 * n + 8 * CRC_LEN

\* microseconds from the first bit to END / PHYEND, rounded up
AirTime(n) == (FrameBits(n) + BITS_PER_US - 1) \div BITS_PER_US

\* microseconds from the first bit to the ADDRESS event
AddrTime == (PREAMBLE_BITS + ADDRESS_BITS) \div BITS_PER_US


(***************************************************************************)
(* Instants of a device's monotonic (TimerInstantU64).  An instant is      *)
(* w * 2^32 + t with t a signed residue (-2^31 <= t < 2^31), so that       *)
(* instants on both sides of a wrap of the 32 bit capture register are     *)
(* written with small numbers.  A value of the capture register            *)
(* (TimerInstantU32) is the residue t alone: it stands for t mod 2^32.     *)
(***************************************************************************)

Instant(w, t) == [w |-> w, t |-> t]

Zero == Instant(0, 0)

\* a + d microseconds
Plus(a, d) == [a EXCEPT !.t = a.t + d]

\* a <= b
AtOrBefore(a, b) == a.w < b.w \/ (a.w = b.w /\ a.t <= b.t)

\* ticks >> 32
HighWord(a) == IF a.t >= 0 THEN a.w ELSE a.w - 1

\* a widening that takes the word of the instant as written, whatever the
\* sign of its residue
WidenWord(now64, ts32) == Instant(now64.w + (IF ts32 < 0 THEN 1 ELSE 0), ts32)

\* Mono::now().ticks() & 0xffff_ffff_0000_0000 | timestamp.0.ticks() as u64
Widen(now64, ts32) == Instant(HighWord(now64) + (IF ts32 < 0 THEN 1 ELSE 0), ts32)

(***************************************************************************)
(* State                                                                   *)
(***************************************************************************)

VARIABLES
  now,         \* true time, in microseconds
  epoch,       \* instant a device's monotonic shows at true time 0
  pc,          \* the await a device's radio task is parked at
  hop,         \* channel_hopping.state
  slot,        \* slot_start_time
  deadline,    \* instant given to Mono::timeout_at
  kstate,      \* KeyboardRadioState of a half
  sync_time,   \* KeyboardRadioState::Synchronized.sync_time
  pkt,         \* payload view of the task's Packet
  correct,     \* correct_rxes of the dongle
  missed,      \* missed_rxes of the dongle
  radio,       \* radio peripheral of a device: frequency, mode, frame locked on, END event
  air,         \* frame a sender has on the air
  faults,      \* frames lost or corrupted so far
  foreign,     \* frames sent by outside transmitters so far
  frames,      \* frames the dongle has completed
  call,        \* last radio call a device issued
  frame_start, \* delay_until target of the dongle's last beacon
  dstat,       \* radio calls and recv outcomes of the dongle's current frame
  tele,        \* last telemetry line of the dongle, with the frame's calls
  kstat,       \* per half: sends and slots of the current episode, inputs of the last widening
  drv,         \* one Radio with its peripheral: registers, transfer, parked operation
  sel,         \* one ChannelHopping selector on its own, with the calls made on it
  packet       \* one Packet on its own: its buffer, byte by byte, and the calls made on it

vars == << now, epoch, pc, hop, slot, deadline, kstate, sync_time, pkt, correct, missed,
           radio, air, faults, foreign, frames, call, frame_start, dstat, tele, kstat,
           drv, sel, packet >>

\* the variables of the frame runners and of the air
protocol_vars ==
  << now, epoch, pc, hop, slot, deadline, kstate, sync_time, pkt, correct, missed,
     radio, air, faults, foreign, frames, call, frame_start, dstat, tele, kstat >>

dongle_vars == << correct, missed, frames, frame_start, dstat, tele >>
half_vars == << kstate, sync_time, kstat >>

\* later than every event of the model
Never == 1000 * 1000 * 1000

\* Mono::now() of a device
Mono(d) == Plus(epoch[d], now)

\* true time at which the monotonic of d shows instant a
TrueTime(d, a) ==
  IF a.w > epoch[d].w THEN Never
  ELSE IF a.w < epoch[d].w THEN 0
  ELSE a.t - epoch[d].t

\* value of the capture register of d for a capture made at true time t
Capture(d, t) == epoch[d].t + t

Min(S) == CHOOSE x \in S : \A y \in S : x <= y

NoEv == [kind |-> "none", crc |-> FALSE, payload |-> << >>, ts |-> 0]
NoFrame == [phase |-> "none", ch |-> 0, payload |-> << >>, tStart |-> 0, tAddr |-> 0, tEnd |-> 0]
NoCall == [op |-> "none", payload |-> << >>, freq |-> 0, idx |-> 0, at |-> Zero]
NoStat == [sends |-> 0, recvs |-> 0, oks |-> 0, crcs |-> 0, timeouts |-> 0]
NoTele == [n |-> 0, correct |-> 0, missed |-> 0, stat |-> NoStat, next |-> Zero]
NoKStat == [sends |-> 0, slots |-> 0, wake |-> Zero, ts |-> 0, errs |-> 0, others |-> 0,
            ack |-> "none"]

(***************************************************************************)
(* Radio driver, as the runners use it                                     *)
(***************************************************************************)

\* Radio::set_freqeuency: the write of FREQUENCY (the caller checks the panic guard)
set_freqeuency(r, f) == [r EXCEPT !.freq = f]

\* Radio::start_recv: events cleared, radio in RxIdle, reception started
start_recv(r) == [r EXCEPT !.mode = "rx", !.lock = "none", !.ev = NoEv]

\* Radio::cancel_recv: STOP, radio back in RxIdle
cancel_recv(r) == [r EXCEPT !.mode = "idle", !.lock = "none"]

\* Radio::send_no_cca up to its await: TXEN, ramp-up, START
start_send(r) == [r EXCEPT !.mode = "tx", !.lock = "none", !.ev = NoEv]

\* the frame that send_no_cca called at `now` puts on the air
TxFrame(ch, payload) ==
  [phase |-> "ramp", ch |-> ch, payload |-> payload,
   tStart |-> now + TX_RAMP_US,
   tAddr |-> now + TX_RAMP_US + AddrTime,
   tEnd |-> now + TX_RAMP_US + AirTime(Len(payload))]

SendCall(d, payload, f, idx) ==
  [op |-> "send_no_cca", payload |-> payload, freq |-> f, idx |-> idx, at |-> Mono(d)]

RecvCall(d, f, idx) ==
  [op |-> "recv", payload |-> << >>, freq |-> f, idx |-> idx, at |-> Zero]

(***************************************************************************)
(* The radio driver on its peripheral (Radio), one instance.               *)
(* drv holds the registers the driver touches (STATE, SHORTS, EVENTS_*,    *)
(* INTEN, FREQUENCY, PACKETPTR), the transfer the peripheral is making,    *)
(* the driver's needs_enable, and the future the calling task is parked    *)
(* in.  Busy waits on STATE are swept to the state they wait for; a wait   *)
(* the peripheral would never satisfy leaves the operation hung.           *)
(***************************************************************************)

\* bounds of the driver's environment
MaxOps == 3
MaxAirFrames == 2
MaxBusy == 2

\* frequencies the caller sets
Freqs == {5, 47}

\* record of a task written to the peripheral, with STATE at the write
Issue(d, t) == [d EXCEPT !.tasks = Append(@, [task |-> t, at |-> d.state])]

\* the peripheral leaving a transitory state on its own
Settle(d) ==
  CASE d.state \in {"RxRu", "TxRu"} ->
         [d EXCEPT !.state = IF d.state = "RxRu" THEN "RxIdle" ELSE "TxIdle",
                   !.events = @ \cup {"ready"},
                   !.tuned = d.frequency]
    [] d.state \in {"RxDisable", "TxDisable"} ->
         [d EXCEPT !.state = "Disabled", !.events = @ \cup {"disabled"}]
    [] OTHER -> d

\* Radio::wait_for_state_a
wait_for_state_a(d, st) ==
  IF Settle(d).state = st THEN Settle(d) ELSE [Settle(d) EXCEPT !.op = "hung"]

tasks_rxen(d) ==
  IF d.state \in {"Disabled", "RxIdle", "TxIdle"}
  THEN [Issue(d, "RXEN") EXCEPT !.state = "RxRu"]
  ELSE Issue(d, "RXEN")

tasks_txen(d) ==
  IF d.state \in {"Disabled", "RxIdle", "TxIdle"}
  THEN [Issue(d, "TXEN") EXCEPT !.state = "TxRu"]
  ELSE Issue(d, "TXEN")

tasks_disable(d) ==
  CASE d.state \in {"RxRu", "RxIdle", "Rx"} ->
         [Issue(d, "DISABLE") EXCEPT !.state = "RxDisable", !.dma = "none", !.rxing = 0,
                                     !.cca = FALSE]
    [] d.state \in {"TxRu", "TxIdle", "Tx"} ->
         [Issue(d, "DISABLE") EXCEPT !.state = "TxDisable", !.dma = "none"]
    [] OTHER -> Issue(d, "DISABLE")

tasks_start(d) ==
  CASE d.state = "RxIdle" -> [Issue(d, "START") EXCEPT !.state = "Rx", !.dma = "rx"]
    [] d.state = "TxIdle" -> [Issue(d, "START") EXCEPT !.state = "Tx", !.dma = "tx"]
    [] OTHER -> Issue(d, "START")

tasks_stop(d) ==
  CASE d.state = "Rx" ->
         [Issue(d, "STOP") EXCEPT !.state = "RxIdle", !.dma = "none", !.rxing = 0]
    [] d.state = "Tx" -> [Issue(d, "STOP") EXCEPT !.state = "TxIdle", !.dma = "none"]
    [] OTHER -> Issue(d, "STOP")

tasks_ccastart(d) ==
  IF d.state = "RxIdle" THEN [Issue(d, "CCASTART") EXCEPT !.cca = TRUE]
  ELSE Issue(d, "CCASTART")

\* Radio::state: the STATE register as Disabled, RxIdle or TxIdle, with
\* TX_DISABLE waited out and unreachable!() for every other value
Radio_state(d) ==
  CASE d.state \in {"Disabled", "TxIdle", "RxIdle"} -> d
    [] d.state = "TxDisable" -> wait_for_state_a(d, "Disabled")
    [] OTHER -> [d EXCEPT !.op = "panic"]

\* the operation went through without panic or endless wait
Alive(d) == d.op \notin {"panic", "hung"}

\* a put_in_rx_mode that ramps up for receive from whatever state it finds
put_in_rx_mode_direct(d) ==
  LET short == [d EXCEPT !.shorts = @ \cup {"address_rssistart", "disabled_rssistop"}]
  IN IF d.state \in {"Disabled", "TxIdle"} \/ d.needs_enable
     THEN wait_for_state_a(tasks_rxen([short EXCEPT !.needs_enable = FALSE]), "RxIdle")
     ELSE short

\* a put_in_rx_mode that leaves a radio in RXIDLE as it is
put_in_rx_mode_no_reenable(d) ==
  LET short == [d EXCEPT !.shorts = @ \cup {"address_rssistart", "disabled_rssistop"}]
      off == IF d.state = "TxIdle"
             THEN wait_for_state_a(tasks_disable(short), "Disabled")
             ELSE short
  IN IF d.state \in {"Disabled", "TxIdle"}
     THEN IF Alive(off)
          THEN wait_for_state_a(tasks_rxen([off EXCEPT !.needs_enable = FALSE]), "RxIdle")
          ELSE off
     ELSE off

\* Radio::put_in_rx_mode
put_in_rx_mode_from(d) ==
  LET short == [d EXCEPT !.shorts = @ \cup {"address_rssistart", "disabled_rssistop"}]
      off == IF d.state = "TxIdle"
             THEN wait_for_state_a(tasks_disable(short), "Disabled")
             ELSE short
  IN IF d.state \in {"Disabled", "TxIdle"} \/ d.needs_enable
     THEN IF Alive(off)
          THEN wait_for_state_a(tasks_rxen([off EXCEPT !.needs_enable = FALSE]), "RxIdle")
          ELSE off
     ELSE off

put_in_rx_mode(d) == IF Alive(Radio_state(d)) THEN put_in_rx_mode_from(Radio_state(d)) ELSE Radio_state(d)

\* a put_in_tx_mode that does not wait for the ramp-up
put_in_tx_mode_no_wait(d) ==
  IF d.state # "TxIdle" \/ d.needs_enable
  THEN tasks_txen([d EXCEPT !.needs_enable = FALSE])
  ELSE d

\* Radio::put_in_tx_mode
put_in_tx_mode_from(d) ==
  IF d.state # "TxIdle" \/ d.needs_enable
  THEN wait_for_state_a(tasks_txen([d EXCEPT !.needs_enable = FALSE]), "TxIdle")
  ELSE d

put_in_tx_mode(d) == IF Alive(Radio_state(d)) THEN put_in_tx_mode_from(Radio_state(d)) ELSE Radio_state(d)

\* an enable_interrupt that writes nothing
enable_interrupt_nothing(d, e) == d

\* Radio::enable_interrupt
enable_interrupt(d, e) == [d EXCEPT !.inten = @ \cup {e}]

\* Radio::disable_interrupt: the CcaBusy arm clears the PHYEND enable
disable_interrupt(d, e) ==
  [d EXCEPT !.inten = @ \ {IF e = "ccabusy" THEN "phyend" ELSE e}]

\* Radio::event_happened_and_reset, its result and its effect
event_happened(d, e) == e \in d.events
event_reset(d, e) == [d EXCEPT !.events = @ \ {e}]

\* defaults of Radio::init
DEFAULT_CHANNEL == 5
DEFAULT_SFD == 167
DEFAULT_CCA == [ccamode |-> "CarrierMode", ccaedthres |-> 0]
DEFAULT_TXPOWER == "_0dBm"

\* values a caller passes to the setters: Channel::_12 and ::_13, the
\* default and an energy detection threshold, the default and another
\* delimiter, the default and the highest power
Channels == {10, 15}
Ccas == {DEFAULT_CCA, [ccamode |-> "EdMode", ccaedthres |-> 20]}
Sfds == {DEFAULT_SFD, 0}
TxPowers == {DEFAULT_TXPOWER, "Pos8dBm"}

\* a set_channel that leaves needs_enable as it is
set_channel_no_mark(d, channel) == [d EXCEPT !.frequency = channel]

\* Radio::set_channel
set_channel(d, channel) == [d EXCEPT !.needs_enable = TRUE, !.frequency = channel]

\* Radio::set_cca
set_cca(d, cca) == [d EXCEPT !.needs_enable = TRUE, !.ccactrl = cca]

\* Radio::set_sfd
set_sfd(d, sfd) == [d EXCEPT !.sfd = sfd]

\* Radio::set_txpower
set_txpower(d, power) == [d EXCEPT !.needs_enable = TRUE, !.txpower = power]

\* the peripheral out of reset, before Radio::init
PowerOn ==
  [state |-> "Disabled", shorts |-> {}, events |-> {}, inten |-> {},
   needs_enable |-> FALSE, frequency |-> 2, tuned |-> 2,
   ccactrl |-> [ccamode |-> "EdMode", ccaedthres |-> 0], sfd |-> DEFAULT_SFD,
   txpower |-> "_0dBm",
   dma |-> "none", cca |-> FALSE, crcstatus |-> FALSE, rxing |-> 0, capture |-> 0,
   buf |-> 0, op |-> "none", guard |-> FALSE, woken |-> FALSE,
   poll |-> "parked", phyend_due |-> FALSE,
   ret |-> [kind |-> "none", frame |-> 0, ts |-> 0],
   tasks |-> << >>, ops |-> 0, nframe |-> 0, busy |-> 0, idle |-> FALSE]

\* Radio::disable: from any state to DISABLED
Radio_disable(d) ==
  LET stopped ==
        CASE d.state = "Rx" -> wait_for_state_a(tasks_stop(Issue(d, "CCASTOP")), "RxIdle")
          [] d.state = "Tx" -> wait_for_state_a(tasks_stop(d), "TxIdle")
          [] OTHER -> d
  IN CASE stopped.state = "Disabled" -> stopped
       [] stopped.state \in {"RxRu", "RxIdle", "TxRu", "TxIdle"} ->
            wait_for_state_a(tasks_disable(stopped), "Disabled")
       [] OTHER -> wait_for_state_a(stopped, "Disabled")

\* Radio::init: shortcuts off, radio disabled, events cleared, defaults set
\* (set_channel, set_cca and set_txpower each set needs_enable)
Radio_init(d) ==
  set_txpower(
    set_sfd(
      set_cca(
        set_channel(
          [Radio_disable([d EXCEPT !.shorts = {}, !.needs_enable = FALSE]) EXCEPT
             !.events = @ \ {"disabled", "end", "phyend", "address", "ready"},
             !.tasks = << >>],
          DEFAULT_CHANNEL),
        DEFAULT_CCA),
      DEFAULT_SFD),
    DEFAULT_TXPOWER)

DriverInit == Radio_init(PowerOn)

\* Radio::start_recv: events cleared, RxIdle, PACKETPTR, START
Radio_start_recv(d) ==
  LET rx == put_in_rx_mode([d EXCEPT !.events = @ \ {"phyend", "end", "ready", "address"}])
  IN IF Alive(rx) THEN tasks_start(Issue(rx, "PACKETPTR")) ELSE rx

\* a cancel that does not stop the reception
Radio_cancel_recv_no_stop(d) == d

\* Radio::cancel_recv: STOP, then wait for RX_IDLE
Radio_cancel_recv(d) == wait_for_state_a(tasks_stop(d), "RxIdle")

\* a recv that reports Ok whatever CRCSTATUS says
RecvResultAlwaysOk(d) == [kind |-> "Ok", frame |-> d.buf, ts |-> d.capture]

\* what Ok or Err of recv carries
RecvResult(d) ==
  [kind |-> IF d.crcstatus THEN "Ok" ELSE "Err", frame |-> d.buf, ts |-> d.capture]

\* one poll of the future of recv
recv_poll(d) ==
  IF event_happened(d, "end")
  THEN [disable_interrupt(event_reset(d, "end"), "end") EXCEPT
          !.guard = FALSE, !.op = "none", !.ret = RecvResult(d)]
  ELSE enable_interrupt(d, "end")

\* a poll of send_no_cca that is ready at once, the frame still going out
send_no_cca_poll_eager(d) ==
  [disable_interrupt(event_reset(d, "phyend"), "phyend") EXCEPT
     !.shorts = {}, !.op = "none",
     !.ret = [kind |-> "SentNoCca", frame |-> 0, ts |-> d.capture]]

\* one poll of the future of send_no_cca
send_no_cca_poll(d) ==
  IF event_happened(d, "phyend")
  THEN [disable_interrupt(event_reset(d, "phyend"), "phyend") EXCEPT
          !.shorts = {}, !.op = "none",
          !.ret = [kind |-> "SentNoCca", frame |-> 0, ts |-> d.capture]]
  ELSE enable_interrupt(d, "phyend")

\* a poll of send that leaves a busy channel assessment at that
send_poll_no_restart(d) ==
  IF event_happened(d, "phyend")
  THEN [disable_interrupt(disable_interrupt(event_reset(d, "phyend"), "phyend"), "ccabusy")
          EXCEPT !.shorts = {}, !.op = "none",
                 !.ret = [kind |-> "Sent", frame |-> 0, ts |-> d.capture]]
  ELSE enable_interrupt(enable_interrupt(event_reset(d, "ccabusy"), "phyend"), "ccabusy")

\* one poll of the future of send
send_poll(d) ==
  IF event_happened(d, "phyend")
  THEN [disable_interrupt(disable_interrupt(event_reset(d, "phyend"), "phyend"), "ccabusy")
          EXCEPT !.shorts = {}, !.op = "none",
                 !.ret = [kind |-> "Sent", frame |-> 0, ts |-> d.capture]]
  ELSE IF event_happened(d, "ccabusy")
       THEN enable_interrupt(enable_interrupt(tasks_ccastart(event_reset(d, "ccabusy")),
                                              "phyend"), "ccabusy")
       ELSE enable_interrupt(enable_interrupt(d, "phyend"), "ccabusy")

\* the driver as its caller finds it: no tasks logged yet for this step
Fresh == [drv EXCEPT !.tasks = << >>, !.woken = FALSE]

\* a set_freqeuency without the range check
Radio_set_freqeuency_unchecked(f) ==
  /\ drv.op = "none"
  /\ drv.ops < MaxOps
  /\ drv' = [Fresh EXCEPT !.frequency = f, !.needs_enable = TRUE]
  /\ UNCHANGED << protocol_vars, sel, packet >>

\* Radio::set_freqeuency between two operations
Radio_set_freqeuency(f) ==
  /\ drv.op = "none"
  /\ drv.ops < MaxOps
  /\ drv' = IF f <= MAX_FREQUENCY
            THEN [Fresh EXCEPT !.frequency = f, !.needs_enable = TRUE]
            ELSE [Fresh EXCEPT !.op = "panic"]
  /\ UNCHANGED << protocol_vars, sel, packet >>

\* Radio::recv called and polled once: reception started, guard armed
Radio_recv ==
  /\ drv.op = "none"
  /\ drv.ops < MaxOps
  /\ drv' = IF Alive(Radio_start_recv(Fresh))
            THEN recv_poll([Radio_start_recv(Fresh) EXCEPT
                              !.op = "recv", !.guard = TRUE, !.ops = @ + 1])
            ELSE Radio_start_recv(Fresh)
  /\ UNCHANGED << protocol_vars, sel, packet >>

\* the task is polled while parked in recv
Radio_recv_poll ==
  /\ drv.op = "recv"
  /\ drv' = recv_poll(Fresh)
  /\ UNCHANGED << protocol_vars, sel, packet >>

\* the future of recv is dropped while pending: the guard runs cancel_recv
Radio_recv_drop ==
  /\ drv.op = "recv"
  /\ drv.guard
  /\ drv' = IF Alive(Radio_cancel_recv(Fresh))
            THEN [Radio_cancel_recv(Fresh) EXCEPT
                    !.op = "none", !.guard = FALSE,
                    !.ret = [kind |-> "Cancelled", frame |-> 0, ts |-> 0]]
            ELSE Radio_cancel_recv(Fresh)
  /\ UNCHANGED << protocol_vars, sel, packet >>

\* Radio::send_no_cca up to its first poll
send_no_cca_start(d) ==
  LET tx == put_in_tx_mode(d)
  IN IF Alive(tx)
     THEN tasks_start([Issue([tx EXCEPT !.events = @ \ {"phyend", "end"}], "PACKETPTR")
                         EXCEPT !.shorts = @ \cup {"end_disable"}])
     ELSE tx

Radio_send_no_cca ==
  /\ drv.op = "none"
  /\ drv.ops < MaxOps
  /\ drv' = IF Alive(send_no_cca_start(Fresh))
            THEN send_no_cca_poll([send_no_cca_start(Fresh) EXCEPT
                                     !.op = "send_no_cca", !.ops = @ + 1])
            ELSE send_no_cca_start(Fresh)
  /\ UNCHANGED << protocol_vars, sel, packet >>

Radio_send_no_cca_poll ==
  /\ drv.op = "send_no_cca"
  /\ drv' = send_no_cca_poll(Fresh)
  /\ UNCHANGED << protocol_vars, sel, packet >>

\* Radio::send up to its first poll: RxIdle, shortcuts, PACKETPTR, CCASTART
send_start(d) ==
  LET rx == put_in_rx_mode(d)
  IN IF Alive(rx)
     THEN tasks_ccastart(
            Issue([rx EXCEPT !.events = @ \ {"phyend", "end", "ready"},
                             !.shorts = @ \cup {"ccaidle_txen", "txready_start", "end_disable"}],
                  "PACKETPTR"))
     ELSE rx

Radio_send ==
  /\ drv.op = "none"
  /\ drv.ops < MaxOps
  /\ drv' = IF Alive(send_start(Fresh))
            THEN send_poll([send_start(Fresh) EXCEPT
                              !.op = "send", !.ops = @ + 1, !.idle = FALSE])
            ELSE send_start(Fresh)
  /\ UNCHANGED << protocol_vars, sel, packet >>

Radio_send_poll ==
  /\ drv.op = "send"
  /\ drv' = send_poll(Fresh)
  /\ UNCHANGED << protocol_vars, sel, packet >>

\* the setters between two operations
Radio_set_channel(channel) ==
  /\ drv.op = "none"
  /\ drv.ops < MaxOps
  /\ drv' = set_channel(Fresh, channel)
  /\ UNCHANGED << protocol_vars, sel, packet >>

Radio_set_cca(cca) ==
  /\ drv.op = "none"
  /\ drv.ops < MaxOps
  /\ drv' = set_cca(Fresh, cca)
  /\ UNCHANGED << protocol_vars, sel, packet >>

Radio_set_sfd(sfd) ==
  /\ drv.op = "none"
  /\ drv.ops < MaxOps
  /\ drv' = set_sfd(Fresh, sfd)
  /\ UNCHANGED << protocol_vars, sel, packet >>

Radio_set_txpower(power) ==
  /\ drv.op = "none"
  /\ drv.ops < MaxOps
  /\ drv' = set_txpower(Fresh, power)
  /\ UNCHANGED << protocol_vars, sel, packet >>

\* Radio::put_in_rx_mode and Radio::put_in_tx_mode on their own, as the
\* operations call them
Mode_put_in_rx_mode ==
  /\ drv.op = "none"
  /\ drv.ops < MaxOps
  /\ drv' = [put_in_rx_mode(Fresh) EXCEPT !.ops = @ + 1]
  /\ UNCHANGED << protocol_vars, sel, packet >>

Mode_put_in_tx_mode ==
  /\ drv.op = "none"
  /\ drv.ops < MaxOps
  /\ drv' = [put_in_tx_mode(Fresh) EXCEPT !.ops = @ + 1]
  /\ UNCHANGED << protocol_vars, sel, packet >>

\* the RADIO interrupt handler: every source masked, the task woken
RADIO ==
  /\ drv.events \cap drv.inten # {}
  /\ drv' = [drv EXCEPT !.inten = {}, !.woken = TRUE]
  /\ UNCHANGED << protocol_vars, sel, packet >>

\* the address of a frame on the air matches while the radio receives
EvAddress ==
  /\ drv.state = "Rx"
  /\ drv.rxing = 0
  /\ drv.nframe < MaxAirFrames
  /\ drv' = [drv EXCEPT !.rxing = drv.nframe + 1, !.nframe = @ + 1,
                        !.capture = drv.nframe + 1,
                        !.events = @ \cup {"address"}]
  /\ UNCHANGED << protocol_vars, sel, packet >>

\* a radio that goes on receiving after END, as with an END -> START shortcut
EvRxEndRestarts ==
  /\ drv.state = "Rx"
  /\ drv.rxing # 0
  /\ \E crc \in BOOLEAN :
       drv' = [drv EXCEPT !.buf = drv.rxing, !.crcstatus = crc, !.rxing = 0,
                          !.events = @ \cup {"end", "phyend"}]
  /\ UNCHANGED << protocol_vars, sel, packet >>

\* the frame is received to its end: payload written to RAM, CRCSTATUS set,
\* END and PHYEND, the radio back in RXIDLE
EvRxEnd ==
  /\ drv.state = "Rx"
  /\ drv.rxing # 0
  /\ \E crc \in BOOLEAN :
       drv' = [drv EXCEPT !.buf = drv.rxing, !.crcstatus = crc, !.rxing = 0,
                          !.dma = "none",
                          !.events = @ \cup {"end", "phyend"},
                          !.state = IF "end_disable" \in drv.shorts
                                    THEN "RxDisable" ELSE "RxIdle"]
  /\ UNCHANGED << protocol_vars, sel, packet >>

\* the frame is sent to its end: ADDRESS captured on the way, END, the
\* END -> DISABLE shortcut if set, PHYEND
EvTxEnd ==
  /\ drv.state = "Tx"
  /\ drv' = [drv EXCEPT !.capture = 0 - drv.ops,
                        !.dma = "none",
                        !.events = @ \cup {"address", "end", "phyend"},
                        !.state = IF "end_disable" \in drv.shorts
                                  THEN "TxDisable" ELSE "TxIdle"]
  /\ UNCHANGED << protocol_vars, sel, packet >>

\* the radio has ramped down
EvDisabled ==
  /\ drv.state \in {"RxDisable", "TxDisable"}
  /\ drv' = Settle(drv)
  /\ UNCHANGED << protocol_vars, sel, packet >>

\* clear channel assessment finds the channel busy
EvCcaBusy ==
  /\ drv.cca
  /\ drv.busy < MaxBusy
  /\ drv' = [drv EXCEPT !.cca = FALSE, !.busy = @ + 1, !.events = @ \cup {"ccabusy"}]
  /\ UNCHANGED << protocol_vars, sel, packet >>

\* clear channel assessment finds the channel idle: CCAIDLE, and with the
\* shortcuts CCAIDLE -> TXEN and TXREADY -> START the frame goes out
EvCcaIdle ==
  /\ drv.cca
  /\ drv' = LET idle == [drv EXCEPT !.cca = FALSE, !.idle = TRUE,
                                    !.events = @ \cup {"ccaidle"}]
                ready == Settle([idle EXCEPT !.state = "TxRu"])
            IN IF "ccaidle_txen" \in drv.shorts
               THEN IF "txready_start" \in drv.shorts
                    THEN [ready EXCEPT !.state = "Tx", !.dma = "tx"]
                    ELSE ready
               ELSE idle
  /\ UNCHANGED << protocol_vars, sel, packet >>

(***************************************************************************)
(* One Packet on its own.  packet.buffer is the buffer of 1 + MAX_PSDU_LEN *)
(* bytes (buffer[i] of the source is packet.buffer[i + 1]), packet.last    *)
(* the last call, packet.panicked whether that call panicked, packet.ops   *)
(* the calls made.                                                         *)
(***************************************************************************)

\* bound on the calls made on the packet
MaxPacketOps == 3

MAX_PSDU_LEN == CAPACITY + CRC_LEN
SIZE == 1 + MAX_PSDU_LEN

\* n bytes of value v
Fill(n, v) == [i \in 1 .. n |-> v]

\* the first n data bytes of a buffer replaced by src
WriteData(buffer, src) ==
  [i \in 1 .. SIZE |->
     IF i - 1 - PHY_HDR \in 1 .. Len(src) THEN src[i - 1 - PHY_HDR] ELSE buffer[i]]

\* a set_len that writes the header before it checks the length
Packet_set_len_late_check(p, len) ==
  [p EXCEPT !.buffer[PHY_HDR + 1] = (len + CRC_LEN) % U8, !.panicked = len > CAPACITY]

\* Packet::set_len
Packet_set_len(p, len) ==
  IF len <= CAPACITY
  THEN [p EXCEPT !.buffer[PHY_HDR + 1] = (len + CRC_LEN) % U8]
  ELSE [p EXCEPT !.panicked = TRUE]

\* Packet::new
Packet_new ==
  Packet_set_len([buffer |-> Fill(SIZE, 0), panicked |-> FALSE, last |-> "new", ops |-> 0], 0)

\* Packet::len, in u8 arithmetic, and whether the subtraction underflows
Packet_len(p) == (p.buffer[PHY_HDR + 1] - CRC_LEN) % U8
LenUnderflows(p) == p.buffer[PHY_HDR + 1] < CRC_LEN

\* a copy_from_slice that leaves the header as it was
Packet_copy_from_slice_keep_len(p, src) ==
  IF Len(src) <= CAPACITY
  THEN [p EXCEPT !.buffer = WriteData(p.buffer, src)]
  ELSE [p EXCEPT !.panicked = TRUE]

\* Packet::copy_from_slice
Packet_copy_from_slice(p, src) ==
  IF Len(src) <= CAPACITY
  THEN Packet_set_len([p EXCEPT !.buffer = WriteData(p.buffer, src)], Len(src) % U8)
  ELSE [p EXCEPT !.panicked = TRUE]

\* Deref for Packet: the slice is in range of the data bytes, or the index panics
DerefInRange(p) == ~LenUnderflows(p) /\ Packet_len(p) <= SIZE - 1
Packet_deref(p) == [i \in 1 .. Packet_len(p) |-> p.buffer[PHY_HDR + 1 + i]]

\* the buffer after the radio has received a frame with header phr into it:
\* the header and the bytes before the CRC are written
Received(p, phr, v) ==
  LET n == IF phr > CRC_LEN THEN phr - CRC_LEN ELSE 0
  IN [p EXCEPT !.buffer = [WriteData(p.buffer, Fill(n, v)) EXCEPT ![PHY_HDR + 1] = phr]]

\* slices and lengths a caller passes, headers a frame on the air carries
Slices ==
  {<< >>, << 7 >>, SYNC_PAYLOAD, ACK_PAYLOAD, Fill(CAPACITY, 1), Fill(CAPACITY + 1, 2)}
Lens == {0, 1, Len(SYNC_PAYLOAD), CAPACITY, CAPACITY + 1, U8 - 1}
Headers == {0, 1, CRC_LEN, Len(SYNC_PAYLOAD) + CRC_LEN, MAX_PSDU_LEN}

Called(p, name) == [p EXCEPT !.last = name, !.ops = @ + 1]

Pkt_copy_from_slice(src) ==
  /\ ~packet.panicked
  /\ packet.ops < MaxPacketOps
  /\ packet' = Packet_copy_from_slice(Called(packet, "copy_from_slice"), src)
  /\ UNCHANGED << protocol_vars, drv, sel >>

Pkt_set_len(len) ==
  /\ ~packet.panicked
  /\ packet.ops < MaxPacketOps
  /\ packet' = Packet_set_len(Called(packet, "set_len"), len)
  /\ UNCHANGED << protocol_vars, drv, sel >>

\* a recv into the packet has completed
Pkt_received(phr) ==
  /\ ~packet.panicked
  /\ packet.ops < MaxPacketOps
  /\ packet' = Received(Called(packet, "received"), phr, 9)
  /\ UNCHANGED << protocol_vars, drv, sel >>

(***************************************************************************)
(* One ChannelHopping selector on its own: sel.which names the source file *)
(* of the selector, sel.state is its state; sel.from is a state chosen to  *)
(* be watched, sel.calls the next_channel calls made since the selector    *)
(* was first in that state (-1 before), sel.last the last call.            *)
(***************************************************************************)

Selectors == {"radio_protocol", "dongle_tasks"}

SelSeq(w) ==
  IF w = "radio_protocol" THEN CHANNEL_HOPPING_SEQUENCE
  ELSE DongleTasks_CHANNEL_HOPPING_SEQUENCE

SelLen(w) == Len(SelSeq(w))

SelChannel(w, state) ==
  IF w = "radio_protocol" THEN current_channel(state) ELSE DongleTasks_current_channel(state)

SelNext(w, state) ==
  IF w = "radio_protocol" THEN next_channel(state) ELSE DongleTasks_next_channel(state)

SelInitial(w, state) ==
  IF w = "radio_protocol" THEN is_initial_state(state) ELSE DongleTasks_is_initial_state(state)

Counting(state, from, calls) == IF calls >= 0 THEN calls ELSE IF state = from THEN 0 ELSE calls

NewSel(w, from) ==
  [which |-> w, state |-> new, from |-> from, calls |-> Counting(new, from, 0 - 1),
   last |-> "new"]

Hop_next_channel ==
  /\ sel.calls < SelLen(sel.which)
  /\ sel' = [sel EXCEPT
               !.state = SelNext(sel.which, sel.state),
               !.calls = IF sel.calls >= 0 THEN sel.calls + 1
                         ELSE Counting(SelNext(sel.which, sel.state), sel.from, sel.calls),
               !.last = "next_channel"]
  /\ UNCHANGED << protocol_vars, drv, packet >>

Hop_reset ==
  /\ sel.which = "radio_protocol"
  /\ sel' = [sel EXCEPT !.state = reset,
                        !.calls = Counting(reset, sel.from, 0 - 1),
                        !.last = "reset"]
  /\ UNCHANGED << protocol_vars, drv, packet >>

(***************************************************************************)
(* Initial state: the dongle's runner has computed its first beacon time;   *)
(* a half that is powered has made its first pass through LookingForSync   *)
(* and waits in recv on the beacon channel.                                *)
(***************************************************************************)

\* a monotonic that shows the last tick before a wrap of the capture register
\* when the ADDRESS event of the first beacon is captured
WrapEpoch == Instant(1, 0 - 1 - (START_DELAY_US + TX_RAMP_US + AddrTime))

Epochs == {Zero, WrapEpoch}

\* the radio after Radio::init
RadioOff == [freq |-> 5, mode |-> "idle", lock |-> "none", ev |-> NoEv]

\* the radio of a half waiting in its first recv
RadioLooking == start_recv(set_freqeuency(RadioOff, current_channel(reset)))

InitRunners(powered) ==
  /\ now = 0
  /\ epoch \in {e \in [Dev -> Epochs] : e[Dongle] = Zero}
  /\ pc = [d \in Dev |-> IF d = Dongle THEN "d_delay"
                         ELSE IF powered THEN "k_sync_rx" ELSE "off"]
  /\ hop = [d \in Dev |-> 0]
  /\ slot = [d \in Dev |-> IF d = Dongle THEN Instant(0, START_DELAY_US) ELSE Zero]
  /\ deadline = [d \in Dev |-> Zero]
  /\ kstate = [h \in Half |-> "LookingForSync"]
  /\ sync_time = [h \in Half |-> Zero]
  /\ pkt = [d \in Dev |-> << >>]
  /\ correct = 0
  /\ missed = 0
  /\ radio = [d \in Dev |-> IF d \in Half /\ powered THEN RadioLooking ELSE RadioOff]
  /\ air = [x \in Sender |-> NoFrame]
  /\ faults = 0
  /\ foreign = 0
  /\ frames = 0
  /\ call = [d \in Dev |-> IF d \in Half /\ powered
                           THEN RecvCall(d, current_channel(reset), reset)
                           ELSE NoCall]
  /\ frame_start = Zero
  /\ dstat = NoStat
  /\ tele = NoTele
  /\ kstat = [h \in Half |-> NoKStat]
  /\ drv = DriverInit
  /\ packet = Packet_new

\* both halves powered
Init == InitRunners(TRUE) /\ sel = NewSel("radio_protocol", new)

(***************************************************************************)
(* The air                                                                 *)
(***************************************************************************)

\* receivers that can lock on the frame of sender x when its first bit arrives
Listeners(x) ==
  {d \in Dev \ {x} : /\ radio[d].mode = "rx"
                     /\ radio[d].lock = "none"
                     /\ radio[d].freq = air[x].ch}

\* first bit of x's frame: every listener locks on it, except those that miss it
AirStart(x) ==
  /\ air[x].phase = "ramp"
  /\ now = air[x].tStart
  /\ \E lost \in SUBSET Listeners(x) :
       /\ faults + Cardinality(lost) <= MaxFaults
       /\ faults' = faults + Cardinality(lost)
       /\ radio' = [d \in Dev |->
                      IF d \in Listeners(x) \ lost
                      THEN [radio[d] EXCEPT !.lock = x]
                      ELSE radio[d]]
  /\ air' = [air EXCEPT ![x].phase = "air"]
  /\ UNCHANGED << now, epoch, pc, hop, slot, deadline, pkt, foreign, call >>
  /\ UNCHANGED << dongle_vars, half_vars, drv, sel, packet >>

Locked(x) == {d \in Dev : radio[d].mode = "rx" /\ radio[d].lock = x}

\* last bit of x's frame: END at every receiver locked on it, with the CRC
\* status good unless the channel corrupted the frame; PHYEND at the sender
AirEnd(x) ==
  /\ air[x].phase = "air"
  /\ now = air[x].tEnd
  /\ \E bad \in SUBSET Locked(x) :
       /\ faults + Cardinality(bad) <= MaxFaults
       /\ faults' = faults + Cardinality(bad)
       /\ radio' = [d \in Dev |->
                      IF d \in Locked(x)
                      THEN [radio[d] EXCEPT
                              !.mode = "idle", !.lock = "none",
                              !.ev = [kind |-> "end", crc |-> d \notin bad,
                                      payload |-> air[x].payload,
                                      ts |-> Capture(d, air[x].tAddr)]]
                      ELSE IF d = x THEN [radio[d] EXCEPT !.mode = "idle"]
                      ELSE radio[d]]
  /\ air' = [air EXCEPT ![x] = NoFrame]
  /\ UNCHANGED << now, epoch, pc, hop, slot, deadline, pkt, foreign, call >>
  /\ UNCHANGED << dongle_vars, half_vars, drv, sel, packet >>

\* a transmitter outside the system sends a frame on the channel the dongle
\* listens on, timed to end as early as the receive allows, just before the
\* receive deadline, or at the deadline
ForeignTx ==
  /\ frames < MaxFrames
  /\ foreign < MaxForeign
  /\ air[Foreign].phase = "none"
  /\ pc[Dongle] = "d_recv"
  /\ radio[Dongle].mode = "rx"
  /\ \E tEnd \in {now + AirTime(Len(FOREIGN_PAYLOAD)),
                 TrueTime(Dongle, deadline[Dongle]) - 1,
                 TrueTime(Dongle, deadline[Dongle])} :
       /\ tEnd - AirTime(Len(FOREIGN_PAYLOAD)) >= now
       /\ air' = [air EXCEPT ![Foreign] =
                    [phase |-> "ramp", ch |-> radio[Dongle].freq,
                     payload |-> FOREIGN_PAYLOAD,
                     tStart |-> tEnd - AirTime(Len(FOREIGN_PAYLOAD)),
                     tAddr |-> tEnd - AirTime(Len(FOREIGN_PAYLOAD)) + AddrTime,
                     tEnd |-> tEnd]]
  /\ foreign' = foreign + 1
  /\ UNCHANGED << now, epoch, pc, hop, slot, deadline, pkt, radio, faults, call >>
  /\ UNCHANGED << dongle_vars, half_vars, drv, sel, packet >>

(***************************************************************************)
(* Passage of time                                                         *)
(***************************************************************************)

TimedPc == {"d_delay", "d_recv", "k_delay", "k_ack_rx"}
RecvPc == {"d_recv", "k_sync_rx", "k_ack_rx"}
SendPc == {"d_sync_tx", "d_ack_tx", "k_tx"}

\* true time at which the timer a device waits on expires
WakeTime(d) ==
  CASE pc[d] \in {"d_delay", "k_delay"} -> TrueTime(d, slot[d])
    [] pc[d] \in {"d_recv", "k_ack_rx"} -> TrueTime(d, deadline[d])
    [] OTHER -> Never

\* the device's task can run now
Runnable(d) ==
  \/ pc[d] \in TimedPc /\ WakeTime(d) <= now
  \/ pc[d] \in RecvPc /\ radio[d].ev.kind = "end"
  \/ pc[d] \in SendPc /\ air[d].phase = "none"

AirTimeOf(x) ==
  CASE air[x].phase = "ramp" -> air[x].tStart
    [] air[x].phase = "air" -> air[x].tEnd
    [] OTHER -> Never

NextEvent == Min({WakeTime(d) : d \in Dev} \cup {AirTimeOf(x) : x \in Sender})

\* time passes to the next event once nothing is left to do at this instant
Advance ==
  /\ \A d \in Dev : ~Runnable(d)
  /\ NextEvent > now
  /\ NextEvent < Never
  /\ now' = NextEvent
  /\ UNCHANGED << epoch, pc, hop, slot, deadline, pkt, radio, air, faults, foreign, call >>
  /\ UNCHANGED << dongle_vars, half_vars, drv, sel, packet >>

(***************************************************************************)
(* Dongle frame runner (dongle_radio_runner)                               *)
(***************************************************************************)

\* a guard that refuses the highest channel of the band
FreqOkBelowBand(f) == f < BAND_MAX

\* the guard of Radio::set_freqeuency
FreqOk(f) == f <= MAX_FREQUENCY

\* panic!("Invalid frequency setting"): the task stops
Panic(d) ==
  /\ pc' = [pc EXCEPT ![d] = "panic"]
  /\ UNCHANGED << now, epoch, hop, slot, deadline, pkt, radio, air, faults, foreign, call >>
  /\ UNCHANGED << dongle_vars, half_vars, drv, sel, packet >>

\* a receive window that runs to the end of the slot
RecvDeadlineNoGuard(s) == Plus(s, SLOT_SIZE)

\* slot_start_time + SLOT_SIZE - 200.micros()
RecvDeadline(s) == Plus(s, SLOT_SIZE - GUARD_US)

\* the dongle's state after a step that leaves the air alone
DongleStep(pcN, hopN, slotN, dlN, pktN, radioN, callN, corrN, missN, statN, teleN, framesN) ==
  /\ pc' = [pc EXCEPT ![Dongle] = pcN]
  /\ hop' = [hop EXCEPT ![Dongle] = hopN]
  /\ slot' = [slot EXCEPT ![Dongle] = slotN]
  /\ deadline' = [deadline EXCEPT ![Dongle] = dlN]
  /\ pkt' = [pkt EXCEPT ![Dongle] = pktN]
  /\ radio' = [radio EXCEPT ![Dongle] = radioN]
  /\ call' = [call EXCEPT ![Dongle] = callN]
  /\ correct' = corrN
  /\ missed' = missN
  /\ dstat' = statN
  /\ tele' = teleN
  /\ frames' = framesN
  /\ UNCHANGED << now, epoch, air, faults, foreign, frame_start, half_vars, drv, sel, packet >>

\* head of `while !channel_hopping.is_initial_state()` with the selector at h and
\* slot_start_time at s: arm the next receive, or end the frame with its
\* telemetry line and wait for the next beacon time
WhileSlots(h, s, c, m, p, r, st) ==
  IF ~is_initial_state(h)
  THEN IF FreqOk(current_channel(h))
       THEN DongleStep("d_recv", h, s, RecvDeadline(s), p,
                       start_recv(set_freqeuency(r, current_channel(h))),
                       RecvCall(Dongle, current_channel(h), h),
                       c, m, [st EXCEPT !.recvs = @ + 1], tele, frames)
       ELSE Panic(Dongle)
  ELSE DongleStep("d_delay", h, s, deadline[Dongle], p, r, call[Dongle], c, m, st,
                  [n |-> tele.n + 1, correct |-> c, missed |-> m, stat |-> st, next |-> s],
                  frames + 1)

\* delay_until(slot_start_time) returned: tune, fill the sync packet, send_no_cca
D_SendSync ==
  /\ frames < MaxFrames
  /\ pc[Dongle] = "d_delay"
  /\ AtOrBefore(slot[Dongle], Mono(Dongle))
  /\ IF FreqOk(current_channel(hop[Dongle]))
     THEN /\ pc' = [pc EXCEPT ![Dongle] = "d_sync_tx"]
          /\ pkt' = [pkt EXCEPT ![Dongle] = copy_from_slice(SYNC_PAYLOAD)]
          /\ radio' = [radio EXCEPT ![Dongle] =
                         start_send(set_freqeuency(@, current_channel(hop[Dongle])))]
          /\ air' = [air EXCEPT ![Dongle] =
                       TxFrame(current_channel(hop[Dongle]), copy_from_slice(SYNC_PAYLOAD))]
          /\ call' = [call EXCEPT ![Dongle] =
                        SendCall(Dongle, copy_from_slice(SYNC_PAYLOAD),
                                 current_channel(hop[Dongle]), hop[Dongle])]
          /\ frame_start' = slot[Dongle]
          /\ dstat' = [NoStat EXCEPT !.sends = 1]
          /\ UNCHANGED << now, epoch, hop, slot, deadline, faults, foreign >>
          /\ UNCHANGED << correct, missed, frames, tele, half_vars, drv, sel, packet >>
     ELSE Panic(Dongle)

\* the sync packet is out: first keyboard slot
D_SyncSent ==
  /\ frames < MaxFrames
  /\ pc[Dongle] = "d_sync_tx"
  /\ air[Dongle].phase = "none"
  /\ WhileSlots(next_channel(hop[Dongle]), Plus(slot[Dongle], SLOT_SIZE), 0, 0,
                pkt[Dongle], radio[Dongle], dstat)

\* an ack sent after moving to the next channel
D_RecvOkHopFirst ==
  /\ frames < MaxFrames
  /\ pc[Dongle] = "d_recv"
  /\ radio[Dongle].ev.kind = "end"
  /\ radio[Dongle].ev.crc
  /\ pc' = [pc EXCEPT ![Dongle] = "d_ack_tx"]
  /\ correct' = correct + 1
  /\ hop' = [hop EXCEPT ![Dongle] = next_channel(@)]
  /\ pkt' = [pkt EXCEPT ![Dongle] = copy_from_slice(ACK_PAYLOAD)]
  /\ radio' = [radio EXCEPT ![Dongle] =
                 start_send(set_freqeuency(@, current_channel(next_channel(hop[Dongle]))))]
  /\ air' = [air EXCEPT ![Dongle] =
               TxFrame(current_channel(next_channel(hop[Dongle])), copy_from_slice(ACK_PAYLOAD))]
  /\ call' = [call EXCEPT ![Dongle] =
                SendCall(Dongle, copy_from_slice(ACK_PAYLOAD),
                         current_channel(next_channel(hop[Dongle])), next_channel(hop[Dongle]))]
  /\ dstat' = [dstat EXCEPT !.oks = @ + 1, !.sends = @ + 1]
  /\ UNCHANGED << now, epoch, slot, deadline, faults, foreign >>
  /\ UNCHANGED << missed, frames, frame_start, tele, half_vars, drv, sel, packet >>

\* recv returned Ok((ts, rssi)) within the slot: count it and send the ack
D_RecvOk ==
  /\ frames < MaxFrames
  /\ pc[Dongle] = "d_recv"
  /\ radio[Dongle].ev.kind = "end"
  /\ radio[Dongle].ev.crc
  /\ pc' = [pc EXCEPT ![Dongle] = "d_ack_tx"]
  /\ correct' = correct + 1
  /\ pkt' = [pkt EXCEPT ![Dongle] = copy_from_slice(ACK_PAYLOAD)]
  /\ radio' = [radio EXCEPT ![Dongle] = start_send(@)]
  /\ air' = [air EXCEPT ![Dongle] = TxFrame(radio[Dongle].freq, copy_from_slice(ACK_PAYLOAD))]
  /\ call' = [call EXCEPT ![Dongle] =
                SendCall(Dongle, copy_from_slice(ACK_PAYLOAD), radio[Dongle].freq, hop[Dongle])]
  /\ dstat' = [dstat EXCEPT !.oks = @ + 1, !.sends = @ + 1]
  /\ UNCHANGED << now, epoch, hop, slot, deadline, faults, foreign >>
  /\ UNCHANGED << missed, frames, frame_start, tele, half_vars, drv, sel, packet >>

\* recv returned Err(crc) within the slot: nothing is counted, next slot
D_RecvCrcErr ==
  /\ frames < MaxFrames
  /\ pc[Dongle] = "d_recv"
  /\ radio[Dongle].ev.kind = "end"
  /\ ~radio[Dongle].ev.crc
  /\ WhileSlots(next_channel(hop[Dongle]), Plus(slot[Dongle], SLOT_SIZE), correct, missed,
                radio[Dongle].ev.payload, [radio[Dongle] EXCEPT !.ev = NoEv],
                [dstat EXCEPT !.crcs = @ + 1])

\* a timeout that moves to the next channel without moving slot_start_time
D_RecvTimeoutKeepSlot ==
  /\ frames < MaxFrames
  /\ pc[Dongle] = "d_recv"
  /\ radio[Dongle].ev.kind = "none"
  /\ AtOrBefore(deadline[Dongle], Mono(Dongle))
  /\ WhileSlots(next_channel(hop[Dongle]), slot[Dongle], correct, missed + 1,
                pkt[Dongle], cancel_recv(radio[Dongle]),
                [dstat EXCEPT !.timeouts = @ + 1])

\* a timeout that is not counted
D_RecvTimeoutUncounted ==
  /\ frames < MaxFrames
  /\ pc[Dongle] = "d_recv"
  /\ radio[Dongle].ev.kind = "none"
  /\ AtOrBefore(deadline[Dongle], Mono(Dongle))
  /\ WhileSlots(next_channel(hop[Dongle]), Plus(slot[Dongle], SLOT_SIZE), correct, missed,
                pkt[Dongle], cancel_recv(radio[Dongle]),
                [dstat EXCEPT !.timeouts = @ + 1])

\* a timeout that leaves the runner in its recv
D_RecvTimeoutIgnored ==
  /\ frames < MaxFrames
  /\ pc[Dongle] = "d_recv"
  /\ radio[Dongle].ev.kind = "none"
  /\ AtOrBefore(deadline[Dongle], Mono(Dongle))
  /\ UNCHANGED vars

\* timeout_at expired first: the recv future is dropped (cancel_recv), a miss
\* is counted, next slot
D_RecvTimeout ==
  /\ frames < MaxFrames
  /\ pc[Dongle] = "d_recv"
  /\ radio[Dongle].ev.kind = "none"
  /\ AtOrBefore(deadline[Dongle], Mono(Dongle))
  /\ WhileSlots(next_channel(hop[Dongle]), Plus(slot[Dongle], SLOT_SIZE), correct, missed + 1,
                pkt[Dongle], cancel_recv(radio[Dongle]),
                [dstat EXCEPT !.timeouts = @ + 1])

\* the ack is out: next slot
D_AckSent ==
  /\ frames < MaxFrames
  /\ pc[Dongle] = "d_ack_tx"
  /\ air[Dongle].phase = "none"
  /\ WhileSlots(next_channel(hop[Dongle]), Plus(slot[Dongle], SLOT_SIZE), correct, missed,
                pkt[Dongle], radio[Dongle], dstat)

dongle_radio_runner ==
  \/ D_SendSync
  \/ D_SyncSent
  \/ D_RecvOk
  \/ D_RecvCrcErr
  \/ D_RecvTimeout
  \/ D_AckSent

(***************************************************************************)
(* Keyboard half frame runner (keyboard_radio_runner)                      *)
(***************************************************************************)

is_right_half(h) == h = Right

\* slot_start_time + 1800.micros()
AckDeadline(s) == Plus(s, ACK_WAIT_US)

\* a half's state after a step that leaves the air alone
HalfStep(h, pcN, hopN, slotN, dlN, pktN, radioN, callN, stateN, syncN, statN) ==
  /\ pc' = [pc EXCEPT ![h] = pcN]
  /\ hop' = [hop EXCEPT ![h] = hopN]
  /\ slot' = [slot EXCEPT ![h] = slotN]
  /\ deadline' = [deadline EXCEPT ![h] = dlN]
  /\ pkt' = [pkt EXCEPT ![h] = pktN]
  /\ radio' = [radio EXCEPT ![h] = radioN]
  /\ call' = [call EXCEPT ![h] = callN]
  /\ kstate' = [kstate EXCEPT ![h] = stateN]
  /\ sync_time' = [sync_time EXCEPT ![h] = syncN]
  /\ kstat' = [kstat EXCEPT ![h] = statN]
  /\ UNCHANGED << now, epoch, air, faults, foreign, dongle_vars, drv, sel, packet >>

\* one pass of the LookingForSync arm up to its await: reset the selector,
\* tune to the beacon channel, start a receive without timeout
LookForSync(h, p, r, st) ==
  IF FreqOk(current_channel(reset))
  THEN HalfStep(h, "k_sync_rx", reset, Zero, Zero, p,
                start_recv(set_freqeuency(r, current_channel(reset))),
                RecvCall(h, current_channel(reset), reset),
                "LookingForSync", Zero, st)
  ELSE Panic(h)

\* one pass of the Synchronized loop up to delay_until, with the selector at
\* hp and slot_start_time at s: tune, fill the packet with the slot number
SlotBegin(h, hp, s, r, sy, st) ==
  IF FreqOk(current_channel(hp))
  THEN HalfStep(h, "k_delay", hp, s, Zero, copy_from_slice(<< hp >>),
                set_freqeuency(r, current_channel(hp)), call[h],
                "Synchronized", sy, st)
  ELSE Panic(h)

\* recv returned Err: "Radio receive error", continue
K_SyncRecvErr(h) ==
  /\ pc[h] = "k_sync_rx"
  /\ radio[h].ev.kind = "end"
  /\ ~radio[h].ev.crc
  /\ LookForSync(h, radio[h].ev.payload, [radio[h] EXCEPT !.ev = NoEv],
                 [kstat[h] EXCEPT !.errs = @ + 1])

\* a packet that is not the sync packet taken for it
K_SyncRecvOtherSyncs(h) ==
  /\ pc[h] = "k_sync_rx"
  /\ radio[h].ev.kind = "end"
  /\ radio[h].ev.crc
  /\ ~(is_initial_state(hop[h]) /\ radio[h].ev.payload = SYNC_PAYLOAD)
  /\ SlotBegin(h, next_channel(hop[h]), Plus(Widen(Mono(h), radio[h].ev.ts), SLOT_SIZE),
               [radio[h] EXCEPT !.ev = NoEv], Widen(Mono(h), radio[h].ev.ts),
               [kstat[h] EXCEPT !.others = @ + 1])

\* recv returned Ok with a packet that is not the sync packet
K_SyncRecvOther(h) ==
  /\ pc[h] = "k_sync_rx"
  /\ radio[h].ev.kind = "end"
  /\ radio[h].ev.crc
  /\ ~(is_initial_state(hop[h]) /\ radio[h].ev.payload = SYNC_PAYLOAD)
  /\ LookForSync(h, radio[h].ev.payload, [radio[h] EXCEPT !.ev = NoEv],
                 [kstat[h] EXCEPT !.others = @ + 1])

\* the left half advancing the selector once, like the right half
FirstHopOnce(h, state) == next_channel(state)

\* first slot of a half after a beacon stamped `found`
FirstHop(h, state) ==
  IF is_right_half(h) THEN next_channel(state) ELSE next_channel(next_channel(state))

\* the left half starting in the slot of the right half
FirstSlotSame(h, found) == Plus(found, SLOT_SIZE)

\* slot_start_time of a half's first slot after a beacon stamped `found`
FirstSlot(h, found) ==
  IF is_right_half(h) THEN Plus(found, SLOT_SIZE) ELSE Plus(found, 2 * SLOT_SIZE)

\* recv returned Ok with the sync packet: Synchronized
K_SyncFound(h) ==
  /\ pc[h] = "k_sync_rx"
  /\ radio[h].ev.kind = "end"
  /\ radio[h].ev.crc
  /\ is_initial_state(hop[h]) /\ radio[h].ev.payload = SYNC_PAYLOAD
  /\ SlotBegin(h, FirstHop(h, hop[h]), FirstSlot(h, Widen(Mono(h), radio[h].ev.ts)),
               [radio[h] EXCEPT !.ev = NoEv], Widen(Mono(h), radio[h].ev.ts),
               [kstat[h] EXCEPT !.sends = 0, !.slots = 0, !.wake = Mono(h),
                                !.ts = radio[h].ev.ts])

\* delay_until(slot_start_time) returned: send_no_cca
K_Send(h) ==
  /\ pc[h] = "k_delay"
  /\ AtOrBefore(slot[h], Mono(h))
  /\ pc' = [pc EXCEPT ![h] = "k_tx"]
  /\ radio' = [radio EXCEPT ![h] = start_send(@)]
  /\ air' = [air EXCEPT ![h] = TxFrame(radio[h].freq, pkt[h])]
  /\ call' = [call EXCEPT ![h] = SendCall(h, pkt[h], radio[h].freq, hop[h])]
  /\ kstat' = [kstat EXCEPT ![h].sends = @ + 1]
  /\ UNCHANGED << now, epoch, hop, slot, deadline, pkt, faults, foreign >>
  /\ UNCHANGED << dongle_vars, kstate, sync_time, drv, sel, packet >>

\* the packet is out: look for the ack until slot_start_time + 1800 us
K_SendDone(h) ==
  /\ pc[h] = "k_tx"
  /\ air[h].phase = "none"
  /\ HalfStep(h, "k_ack_rx", hop[h], slot[h], AckDeadline(slot[h]), pkt[h],
              start_recv(radio[h]), RecvCall(h, radio[h].freq, hop[h]),
              kstate[h], sync_time[h], kstat[h])

\* the selector looked at only after both advances
NextSlotLateCheck(h, p, r, a) ==
  IF is_initial_state(next_channel(next_channel(hop[h])))
  THEN LookForSync(h, p, r, [kstat[h] EXCEPT !.slots = @ + 2, !.ack = a])
  ELSE SlotBegin(h, next_channel(next_channel(hop[h])),
                 Plus(Plus(slot[h], SLOT_SIZE), SLOT_SIZE), r, sync_time[h],
                 [kstat[h] EXCEPT !.slots = @ + 2, !.ack = a])

\* a jump of two channels that moves slot_start_time by one slot only
NextSlotOneSlot(h, p, r, a) ==
  IF is_initial_state(next_channel(hop[h]))
  THEN LookForSync(h, p, r, [kstat[h] EXCEPT !.slots = @ + 1, !.ack = a])
  ELSE IF is_initial_state(next_channel(next_channel(hop[h])))
       THEN LookForSync(h, p, r, [kstat[h] EXCEPT !.slots = @ + 2, !.ack = a])
       ELSE SlotBegin(h, next_channel(next_channel(hop[h])),
                      Plus(slot[h], SLOT_SIZE), r, sync_time[h],
                      [kstat[h] EXCEPT !.slots = @ + 2, !.ack = a])

\* "Jump 2 channels": advance slot and selector twice, leaving the loop for
\* LookingForSync as soon as the selector is back in its initial state
NextSlot(h, p, r, a) ==
  IF is_initial_state(next_channel(hop[h]))
  THEN LookForSync(h, p, r, [kstat[h] EXCEPT !.slots = @ + 1, !.ack = a])
  ELSE IF is_initial_state(next_channel(next_channel(hop[h])))
       THEN LookForSync(h, p, r, [kstat[h] EXCEPT !.slots = @ + 2, !.ack = a])
       ELSE SlotBegin(h, next_channel(next_channel(hop[h])),
                      Plus(Plus(slot[h], SLOT_SIZE), SLOT_SIZE), r, sync_time[h],
                      [kstat[h] EXCEPT !.slots = @ + 2, !.ack = a])

\* the receive ended within the window, CRC good or not: "Got ack"
K_AckRecv(h) ==
  /\ pc[h] = "k_ack_rx"
  /\ radio[h].ev.kind = "end"
  /\ NextSlot(h, radio[h].ev.payload, [radio[h] EXCEPT !.ev = NoEv],
              IF radio[h].ev.crc THEN "ok" ELSE "err")

\* a timeout after which the half sends again in the same slot
K_AckTimeoutRetry(h) ==
  /\ pc[h] = "k_ack_rx"
  /\ radio[h].ev.kind = "none"
  /\ AtOrBefore(deadline[h], Mono(h))
  /\ SlotBegin(h, hop[h], slot[h], cancel_recv(radio[h]), sync_time[h],
               [kstat[h] EXCEPT !.ack = "timeout"])

\* timeout_at expired first: the recv future is dropped, "No ack"
K_AckTimeout(h) ==
  /\ pc[h] = "k_ack_rx"
  /\ radio[h].ev.kind = "none"
  /\ AtOrBefore(deadline[h], Mono(h))
  /\ NextSlot(h, pkt[h], cancel_recv(radio[h]), "timeout")

keyboard_radio_runner(h) ==
  \/ K_SyncRecvErr(h)
  \/ K_SyncRecvOther(h)
  \/ K_SyncFound(h)
  \/ K_Send(h)
  \/ K_SendDone(h)
  \/ K_AckRecv(h)
  \/ K_AckTimeout(h)

(***************************************************************************)
(* Specifications                                                          *)
(***************************************************************************)

\* the dongle and the two halves, alone on the air
Next ==
  \/ Advance
  \/ \E x \in Dev : AirStart(x)
  \/ \E x \in Dev : AirEnd(x)
  \/ dongle_radio_runner
  \/ \E h \in Half : keyboard_radio_runner(h)

Spec == Init /\ [][Next]_vars

\* the dongle with transmitters outside the system, the halves not powered
NextDongle ==
  \/ Advance
  \/ ForeignTx
  \/ \E x \in {Dongle, Foreign} : AirStart(x)
  \/ \E x \in {Dongle, Foreign} : AirEnd(x)
  \/ dongle_radio_runner

InitDongle ==
  /\ InitRunners(FALSE)
  /\ \A d \in Dev : epoch[d] = Zero
  /\ sel = NewSel("radio_protocol", new)

SpecDongle == InitDongle /\ [][NextDongle]_vars

\* one Radio driven by a caller that starts, polls and drops operations as
\* the interface allows, with frames and channel assessments arriving
NextDriver ==
  \/ \E f \in Freqs : Radio_set_freqeuency(f)
  \/ Radio_recv
  \/ Radio_recv_poll
  \/ Radio_recv_drop
  \/ Radio_send_no_cca
  \/ Radio_send_no_cca_poll
  \/ Radio_send
  \/ Radio_send_poll
  \/ RADIO
  \/ EvAddress
  \/ EvRxEnd
  \/ EvTxEnd
  \/ EvDisabled
  \/ EvCcaBusy
  \/ EvCcaIdle

SpecDriver == InitDongle /\ [][NextDriver]_vars

\* the driver with a caller that also changes the configuration between
\* operations
NextConfig ==
  \/ NextDriver
  \/ \E channel \in Channels : Radio_set_channel(channel)
  \/ \E cca \in Ccas : Radio_set_cca(cca)
  \/ \E sfd \in Sfds : Radio_set_sfd(sfd)
  \/ \E power \in TxPowers : Radio_set_txpower(power)

SpecConfig == InitDongle /\ [][NextConfig]_vars

(***************************************************************************)
(* The futures of the driver step by step.  drv.poll is the position of    *)
(* the task in the closure of poll_fn: "first" before the first poll,      *)
(* "parked" after Poll::Pending, "enable" and "enable2" after the look at  *)
(* the events and before the writes of INTENSET.  The peripheral and the   *)
(* interrupt handler run between any two of these steps.  END of a sent    *)
(* frame can come before its PHYEND (drv.phyend_due).                      *)
(***************************************************************************)

\* Radio::recv up to poll_fn
Wk_recv ==
  /\ drv.op = "none"
  /\ drv.ops < MaxOps
  /\ drv' = IF Alive(Radio_start_recv(Fresh))
            THEN [Radio_start_recv(Fresh) EXCEPT
                    !.op = "recv", !.guard = TRUE, !.ops = @ + 1, !.poll = "first"]
            ELSE Radio_start_recv(Fresh)
  /\ UNCHANGED << protocol_vars, sel, packet >>

\* poll_fn of recv: WAKER.register, then the look at END
Wk_recv_check ==
  /\ drv.op = "recv"
  /\ drv.poll \in {"first", "parked"}
  /\ drv' = IF event_happened(drv, "end")
            THEN [recv_poll(Fresh) EXCEPT !.poll = "parked"]
            ELSE [Fresh EXCEPT !.poll = "enable"]
  /\ UNCHANGED << protocol_vars, sel, packet >>

\* poll_fn of recv: enable_interrupt(Event::End), Poll::Pending
Wk_recv_enable ==
  /\ drv.op = "recv"
  /\ drv.poll = "enable"
  /\ drv' = [enable_interrupt(drv, "end") EXCEPT !.poll = "parked"]
  /\ UNCHANGED << protocol_vars, sel, packet >>

\* the future of recv dropped where it is parked
Wk_recv_drop == drv.poll = "parked" /\ Radio_recv_drop

\* Radio::send_no_cca up to poll_fn
Wk_send_no_cca ==
  /\ drv.op = "none"
  /\ drv.ops < MaxOps
  /\ drv' = IF Alive(send_no_cca_start(Fresh))
            THEN [send_no_cca_start(Fresh) EXCEPT
                    !.op = "send_no_cca", !.ops = @ + 1, !.poll = "first"]
            ELSE send_no_cca_start(Fresh)
  /\ UNCHANGED << protocol_vars, sel, packet >>

\* poll_fn of send_no_cca: WAKER.register, then the look at PHYEND
Wk_send_no_cca_check ==
  /\ drv.op = "send_no_cca"
  /\ drv.poll \in {"first", "parked"}
  /\ drv' = IF event_happened(drv, "phyend")
            THEN [send_no_cca_poll(Fresh) EXCEPT !.poll = "parked"]
            ELSE [Fresh EXCEPT !.poll = "enable"]
  /\ UNCHANGED << protocol_vars, sel, packet >>

\* poll_fn of send_no_cca: enable_interrupt(Event::PhyEnd), Poll::Pending
Wk_send_no_cca_enable ==
  /\ drv.op = "send_no_cca"
  /\ drv.poll = "enable"
  /\ drv' = [enable_interrupt(drv, "phyend") EXCEPT !.poll = "parked"]
  /\ UNCHANGED << protocol_vars, sel, packet >>

\* Radio::send up to poll_fn
Wk_send ==
  /\ drv.op = "none"
  /\ drv.ops < MaxOps
  /\ drv' = IF Alive(send_start(Fresh))
            THEN [send_start(Fresh) EXCEPT
                    !.op = "send", !.ops = @ + 1, !.idle = FALSE, !.poll = "first"]
            ELSE send_start(Fresh)
  /\ UNCHANGED << protocol_vars, sel, packet >>

\* poll_fn of send: WAKER.register, the look at PHYEND, then at CCABUSY
Wk_send_check ==
  /\ drv.op = "send"
  /\ drv.poll \in {"first", "parked"}
  /\ drv' = IF event_happened(drv, "phyend")
            THEN [send_poll(Fresh) EXCEPT !.poll = "parked"]
            ELSE IF event_happened(drv, "ccabusy")
                 THEN [tasks_ccastart(event_reset(Fresh, "ccabusy")) EXCEPT !.poll = "enable"]
                 ELSE [Fresh EXCEPT !.poll = "enable"]
  /\ UNCHANGED << protocol_vars, sel, packet >>

\* poll_fn of send: enable_interrupt(Event::PhyEnd)
Wk_send_enable ==
  /\ drv.op = "send"
  /\ drv.poll = "enable"
  /\ drv' = [enable_interrupt(drv, "phyend") EXCEPT !.poll = "enable2"]
  /\ UNCHANGED << protocol_vars, sel, packet >>

\* poll_fn of send: enable_interrupt(Event::CcaBusy), Poll::Pending
Wk_send_enable2 ==
  /\ drv.op = "send"
  /\ drv.poll = "enable2"
  /\ drv' = [enable_interrupt(drv, "ccabusy") EXCEPT !.poll = "parked"]
  /\ UNCHANGED << protocol_vars, sel, packet >>

\* END of the frame being sent, ahead of its PHYEND
Wk_TxEnd ==
  /\ drv.state = "Tx"
  /\ drv' = [drv EXCEPT !.capture = 0 - drv.ops,
                        !.dma = "none",
                        !.events = @ \cup {"address", "end"},
                        !.phyend_due = TRUE,
                        !.state = IF "end_disable" \in drv.shorts
                                  THEN "TxDisable" ELSE "TxIdle"]
  /\ UNCHANGED << protocol_vars, sel, packet >>

\* PHYEND of the frame whose END has come
Wk_TxPhyEnd ==
  /\ drv.phyend_due
  /\ drv' = [drv EXCEPT !.events = @ \cup {"phyend"}, !.phyend_due = FALSE]
  /\ UNCHANGED << protocol_vars, sel, packet >>

Wk_Task ==
  \/ Wk_recv_check
  \/ Wk_recv_enable
  \/ Wk_send_no_cca_check
  \/ Wk_send_no_cca_enable
  \/ Wk_send_check
  \/ Wk_send_enable
  \/ Wk_send_enable2

NextWake ==
  \/ \E f \in Freqs : Radio_set_freqeuency(f)
  \/ Wk_recv
  \/ Wk_recv_drop
  \/ Wk_send_no_cca
  \/ Wk_send
  \/ Wk_Task
  \/ RADIO
  \/ EvAddress
  \/ EvRxEnd
  \/ EvTxEnd
  \/ Wk_TxEnd
  \/ Wk_TxPhyEnd
  \/ EvDisabled
  \/ EvCcaBusy
  \/ EvCcaIdle

SpecWake == InitDongle /\ [][NextWake]_vars

\* the task runs when it was woken, when its future was just created, and
\* until its poll has returned; the interrupt is taken; the peripheral
\* finishes what it started; the channel is idle in the end
FairWake ==
  /\ SpecWake
  /\ WF_vars(RADIO)
  /\ WF_vars((drv.woken \/ drv.poll # "parked") /\ Wk_Task)
  /\ WF_vars(EvTxEnd \/ Wk_TxEnd)
  /\ WF_vars(Wk_TxPhyEnd)
  /\ WF_vars(EvDisabled)
  /\ WF_vars(EvCcaIdle)

\* frequencies a caller may pass: those of the runners, the limit, and
\* values past it
AnyFreqs == Freqs \cup {MAX_FREQUENCY, MAX_FREQUENCY + 1, U8 - 1}

\* the driver with a caller that also passes any frequency and finds the
\* radio in any of the states the mode changes leave
NextRadioAny ==
  \/ NextDriver
  \/ \E f \in AnyFreqs : Radio_set_freqeuency(f)
  \/ Mode_put_in_rx_mode
  \/ Mode_put_in_tx_mode

SpecRadioAny == InitDongle /\ [][NextRadioAny]_vars

\* one Packet, called in any order with any argument and received into
NextPacket ==
  \/ \E src \in Slices : Pkt_copy_from_slice(src)
  \/ \E len \in Lens : Pkt_set_len(len)
  \/ \E phr \in Headers : Pkt_received(phr)

SpecPacket == InitDongle /\ [][NextPacket]_vars

\* residues of instants and captures on both sides of the middle and of the
\* wrap of the 32 bit register
Residues == {0, 1, SLOT_SIZE, 1000 * 1000 * 1000, 0 - 1000 * 1000 * 1000, 0 - SLOT_SIZE, 0 - 1}
Nows == {Instant(w, t) : w \in {1, 2}, t \in Residues}

\* the widening of the LookingForSync arm on its own: a half that reads
\* now64 from the monotonic with ts32 in the timestamp of the beacon
K_Widen(h, now64, ts32) ==
  HalfStep(h, pc[h], FirstHop(h, new), FirstSlot(h, Widen(now64, ts32)), deadline[h],
           pkt[h], radio[h], call[h], "Synchronized", Widen(now64, ts32),
           [kstat[h] EXCEPT !.wake = now64, !.ts = ts32])

NextWiden == \E h \in Half, now64 \in Nows, ts32 \in Residues : K_Widen(h, now64, ts32)

SpecWiden == InitDongle /\ [][NextWiden]_vars

\* one selector of either kind, called in any order, with any state watched
InitHop ==
  /\ InitRunners(FALSE)
  /\ \A d \in Dev : epoch[d] = Zero
  /\ sel \in {NewSel(w, from) : w \in Selectors, from \in 0 .. SeqLen - 1}
  /\ sel.from < SelLen(sel.which)

NextHop == Hop_next_channel \/ Hop_reset

SpecHop == InitHop /\ [][NextHop]_vars

\* the same, with the interrupt taken, a woken task polled, the peripheral
\* finishing what it started, and a channel that is idle in the end
FairDriver ==
  /\ SpecDriver
  /\ WF_vars(RADIO)
  /\ WF_vars(drv.woken /\ Radio_recv_poll)
  /\ WF_vars(drv.woken /\ Radio_send_no_cca_poll)
  /\ WF_vars(drv.woken /\ Radio_send_poll)
  /\ WF_vars(EvTxEnd)
  /\ WF_vars(EvDisabled)
  /\ WF_vars(EvCcaIdle)

\* the same, with a monotonic that fires its timers, a radio that brings every
\* frame it started to its end, and an executor that polls a woken task
FairDongle ==
  /\ SpecDongle
  /\ WF_vars(Advance)
  /\ WF_vars(dongle_radio_runner)
  /\ \A x \in {Dongle, Foreign} : WF_vars(AirStart(x)) /\ WF_vars(AirEnd(x))

(***************************************************************************)
(* Properties                                                              *)
(***************************************************************************)

Odd(n) == n % 2 = 1

\* the slot indices a half may transmit in
OwnSlot(h, k) == IF is_right_half(h) THEN Odd(k) ELSE k # 0 /\ ~Odd(k)

Transmitting(h) == pc[h] = "k_tx" /\ air[h].phase = "ramp"

\* C2: when a Synchronized half starts transmitting in slot k it is tuned to
\* SEQ[k], the dongle's selector is at k with a receive armed on SEQ[k]; and
\* the dongle's selector is never past the slot a half waits to transmit in.
C2_SlotAlignment ==
  \A h \in Half :
    /\ Transmitting(h) =>
         /\ radio[h].freq = current_channel(hop[h])
         /\ hop[Dongle] = hop[h]
         /\ pc[Dongle] = "d_recv"
         /\ radio[Dongle].mode = "rx"
         /\ radio[Dongle].freq = current_channel(hop[h])
    /\ pc[h] = "k_delay" => hop[Dongle] <= hop[h]

\* C2 holds of every half whose monotonic is not near a wrap of the capture
\* register when the beacon arrives.
C2_AlignedAwayFromWrap ==
  \A h \in Half :
    epoch[h] = Zero =>
      /\ Transmitting(h) =>
           /\ radio[h].freq = current_channel(hop[h])
           /\ hop[Dongle] = hop[h]
           /\ pc[Dongle] = "d_recv"
           /\ radio[Dongle].mode = "rx"
           /\ radio[Dongle].freq = current_channel(hop[h])
      /\ pc[h] = "k_delay" => hop[Dongle] <= hop[h]

\* C3: the dongle sends the beacon only with its selector in the initial
\* state, on SEQ[0], and the delay_until target of the next beacon is the
\* target of the last one plus L * SLOT_SIZE, whatever the slots in between
\* returned.
C3_BeaconPeriod ==
  /\ pc[Dongle] = "d_sync_tx" =>
       /\ hop[Dongle] = 0
       /\ radio[Dongle].freq = CHANNEL_HOPPING_SEQUENCE[1]
       /\ call[Dongle].payload = SYNC_PAYLOAD /\ call[Dongle].idx = 0
  /\ (call[Dongle].op = "send_no_cca" /\ call[Dongle].payload = SYNC_PAYLOAD) =>
       /\ call[Dongle].idx = 0
       /\ call[Dongle].freq = CHANNEL_HOPPING_SEQUENCE[1]
       /\ call[Dongle].at = frame_start
  /\ (pc[Dongle] = "d_delay" /\ tele.n > 0) =>
       /\ slot[Dongle].w = frame_start.w
       /\ slot[Dongle].t - frame_start.t = SeqLen * SLOT_SIZE

\* C3 witness: a frame with a good reception, a CRC error and timeouts is
\* over and the dongle waits for the next beacon time.
C3_Witness ==
  /\ pc[Dongle] = "d_delay" /\ tele.n > 0
  /\ tele.stat.oks > 0 /\ tele.stat.crcs > 0 /\ tele.stat.timeouts > 0

\* C4: a frame in which every recv timed out consists of one send_no_cca, the
\* beacon, and L-1 recv calls, each under the deadline slot_start_time +
\* SLOT_SIZE - 200 us, and its telemetry is correct = 0, missed = L-1.
C4_SilentFrame ==
  /\ (tele.n > 0 /\ tele.stat.timeouts = SeqLen - 1) =>
       /\ tele.stat.sends = 1
       /\ tele.stat.recvs = SeqLen - 1
       /\ tele.correct = 0
       /\ tele.missed = SeqLen - 1
  /\ (dstat.sends = 1 /\ call[Dongle].op = "send_no_cca") =>
       call[Dongle].payload = << 0, 1, 2, 3, 4, 5, 6, 7, 8, 9 >>
  /\ pc[Dongle] = "d_recv" =>
       /\ call[Dongle].op = "recv" /\ call[Dongle].idx = hop[Dongle]
       /\ hop[Dongle] = dstat.recvs /\ hop[Dongle] \in 1 .. SeqLen - 1
       /\ deadline[Dongle].w = slot[Dongle].w
       /\ deadline[Dongle].t = slot[Dongle].t + SLOT_SIZE - 200

\* C4 witness: the telemetry of a frame in which every recv timed out.
C4_Witness == tele.n > 0 /\ tele.stat.timeouts = SeqLen - 1

\* C5: at the end of a frame every keyboard slot has been counted once, as a
\* success or as a miss: correct_rxes + missed_rxes = L-1.
C5_EverySlotCounted ==
  tele.n > 0 => tele.correct + tele.missed = SeqLen - 1

\* what the runner does count: successes are the Ok receptions, misses are the
\* timeouts, and a CRC error is counted as neither
C5_CountsAsCoded ==
  /\ correct = dstat.oks /\ missed = dstat.timeouts
  /\ tele.n > 0 =>
       /\ tele.correct = tele.stat.oks /\ tele.missed = tele.stat.timeouts
       /\ tele.correct + tele.missed + tele.stat.crcs = SeqLen - 1

\* recv has returned Ok to the dongle's runner, which has not acted on it yet
DongleRecvOk ==
  pc[Dongle] = "d_recv" /\ radio[Dongle].ev.kind = "end" /\ radio[Dongle].ev.crc

\* the dongle's last radio call is the ack on the channel of selector index k
AckCall(c, k) ==
  /\ c.op = "send_no_cca"
  /\ c.payload = << 10, 11, 12, 13, 14, 15, 16, 17, 18, 19 >>
  /\ c.idx = k
  /\ c.freq = CHANNEL_HOPPING_SEQUENCE[k + 1]

\* C6: after recv returns Ok in slot k the dongle's next radio call is
\* send_no_cca with payload [10..=19], with the frequency and the selector
\* untouched, so the ack is on SEQ[k]; the selector moves only once the ack
\* send has completed; after a CRC error or a timeout no ack is sent.
C6_AckFollowsOk ==
  /\ [](pc[Dongle] = "d_ack_tx" =>
          /\ AckCall(call[Dongle], hop[Dongle])
          /\ radio[Dongle].freq = CHANNEL_HOPPING_SEQUENCE[hop[Dongle] + 1]
          /\ air[Dongle].phase # "none" =>
               /\ air[Dongle].ch = CHANNEL_HOPPING_SEQUENCE[hop[Dongle] + 1]
               /\ air[Dongle].payload = call[Dongle].payload)
  /\ [][/\ (DongleRecvOk /\ call'[Dongle] # call[Dongle]) =>
             /\ AckCall(call'[Dongle], hop[Dongle])
             /\ hop'[Dongle] = hop[Dongle]
             /\ radio'[Dongle].freq = radio[Dongle].freq
        /\ (DongleRecvOk /\ pc'[Dongle] # "d_recv") => pc'[Dongle] = "d_ack_tx"
        /\ (pc[Dongle] = "d_ack_tx" /\ hop'[Dongle] # hop[Dongle]) =>
             air[Dongle].phase = "none"
        /\ (call'[Dongle] # call[Dongle] /\ call'[Dongle].op = "send_no_cca"
              /\ call'[Dongle].payload # SYNC_PAYLOAD) => DongleRecvOk
        /\ (pc[Dongle] = "d_recv" /\ ~DongleRecvOk /\ call'[Dongle] # call[Dongle]) =>
             call'[Dongle].op = "recv"]_vars

\* C6 witness: the ack of slot 3 is being sent, after two slots that ended in
\* a CRC error or a timeout.
C6_Witness ==
  /\ pc[Dongle] = "d_ack_tx" /\ hop[Dongle] = 3
  /\ dstat.crcs + dstat.timeouts = 2 /\ dstat.crcs > 0

\* the end of the dongle's current slot, on the model's time axis
SlotEnd == TrueTime(Dongle, slot[Dongle]) + SLOT_SIZE

\* C7: the ack of a slot is completely sent before the slot ends, also when
\* the reception ended just before the receive deadline; nothing but the end
\* of the transmission ends the ack send.
C7_AckInsideSlot ==
  /\ []((pc[Dongle] = "d_ack_tx" /\ air[Dongle].phase # "none") =>
          air[Dongle].tEnd < SlotEnd)
  /\ []((pc[Dongle] = "d_ack_tx") => now < SlotEnd)
  /\ [][(pc[Dongle] = "d_ack_tx" /\ pc'[Dongle] # "d_ack_tx") =>
          air[Dongle].phase = "none" /\ now < SlotEnd]_vars

\* C7 witness: the reception ended one microsecond before the receive
\* deadline and the ack is on the air after the deadline has passed.
C7_Witness ==
  /\ pc[Dongle] = "d_ack_tx" /\ air[Dongle].phase = "air"
  /\ call[Dongle].at = Plus(deadline[Dongle], 0 - 1)
  /\ now > TrueTime(Dongle, deadline[Dongle])

\* selector index of a half's first slot
FirstIndex(h) == IF h = Right THEN 1 ELSE 2

\* C8: a half that receives the sync packet in LookingForSync is Synchronized
\* with sync_time = the high 32 bits of Mono::now() at that moment joined with
\* the 32 bit receive timestamp; the right half starts at selector index 1 and
\* slot time sync_time + SLOT_SIZE, the left half at index 2 and sync_time +
\* 2 * SLOT_SIZE; the first send_no_cca is not issued before that slot time.
C8_SyncTransition ==
  /\ [](\A h \in Half :
          /\ kstate[h] = "Synchronized" =>
               /\ sync_time[h].t = kstat[h].ts
               /\ HighWord(sync_time[h]) = HighWord(kstat[h].wake)
          /\ (kstate[h] = "Synchronized" /\ kstat[h].slots = 0) =>
               /\ hop[h] = FirstIndex(h)
               /\ slot[h].w = sync_time[h].w
               /\ slot[h].t = sync_time[h].t + FirstIndex(h) * SLOT_SIZE
               /\ radio[h].freq = CHANNEL_HOPPING_SEQUENCE[FirstIndex(h) + 1]
          /\ (kstate[h] = "Synchronized" /\ kstat[h].slots = 0 /\ kstat[h].sends = 0) =>
               pc[h] = "k_delay" /\ air[h].phase = "none"
          /\ (kstat[h].sends = 1 /\ kstat[h].slots = 0) =>
               /\ call[h].op \in {"send_no_cca", "recv"}
               /\ call[h].op = "send_no_cca" =>
                    call[h].idx = FirstIndex(h) /\ AtOrBefore(slot[h], call[h].at))
  /\ [][\A h \in Half :
          (pc[h] = "k_sync_rx" /\ radio[h].ev.kind = "end" /\ radio[h].ev.crc
             /\ radio[h].ev.payload = << 0, 1, 2, 3, 4, 5, 6, 7, 8, 9 >>
             /\ radio'[h].ev # radio[h].ev) =>
            /\ kstate'[h] = "Synchronized"
            /\ sync_time'[h].t = radio[h].ev.ts
            /\ HighWord(sync_time'[h]) = HighWord(Mono(h))
            /\ air'[h] = air[h]]_vars

\* C8 witness: both halves have synchronized on a beacon and the left half
\* is sending in its first slot, the second of the frame.
C8_Witness ==
  /\ pc[Left] = "k_tx" /\ kstat[Left].sends = 1 /\ kstat[Left].slots = 0
  /\ kstate[Right] = "Synchronized" /\ kstat[Right].sends = 1

\* recv has returned to a half in LookingForSync with a CRC error or with a
\* packet that is not the sync packet
NoSyncReturned(h) ==
  /\ pc[h] = "k_sync_rx" /\ radio[h].ev.kind = "end"
  /\ ~radio[h].ev.crc \/ radio[h].ev.payload # << 0, 1, 2, 3, 4, 5, 6, 7, 8, 9 >>

\* C9: on Err from recv, or Ok with a payload other than the sync packet, a
\* half in LookingForSync stays there with the selector at index 0, transmits
\* nothing and starts a new recv on SEQ[0].
C9_AcquisitionRestarts ==
  /\ [](\A h \in Half :
          (kstate[h] = "LookingForSync" /\ pc[h] # "off") =>
            /\ hop[h] = 0 /\ pc[h] = "k_sync_rx" /\ air[h].phase = "none"
            /\ call[h].op = "recv" /\ call[h].freq = CHANNEL_HOPPING_SEQUENCE[1]
            /\ radio[h].freq = CHANNEL_HOPPING_SEQUENCE[1])
  /\ [][\A h \in Half :
          (NoSyncReturned(h) /\ radio'[h] # radio[h]) =>
            /\ kstate'[h] = "LookingForSync"
            /\ hop'[h] = 0
            /\ pc'[h] = "k_sync_rx"
            /\ air'[h] = air[h] /\ air[h].phase = "none"
            /\ call'[h].op = "recv" /\ call'[h].idx = 0
            /\ radio'[h].mode = "rx" /\ radio'[h].ev.kind = "none"
            /\ radio'[h].freq = CHANNEL_HOPPING_SEQUENCE[1]]_vars

\* C9 witness: the right half has had a CRC error and a packet that is not
\* the sync packet, and is receiving again.
C9_Witness ==
  /\ kstat[Right].errs > 0 /\ kstat[Right].others > 0
  /\ pc[Right] = "k_sync_rx" /\ radio[Right].mode = "rx"

\* C10: a Synchronized half goes back to LookingForSync when its selector
\* wraps to 0: while Synchronized the selector is never 0, an episode covers
\* at most L-1 slots, and the selector is 0 when LookingForSync is entered.
C10_BackToAcquisition ==
  /\ [](\A h \in Half :
          /\ kstate[h] = "Synchronized" =>
               /\ hop[h] \in 1 .. SeqLen - 1
               /\ hop[h] = FirstIndex(h) + kstat[h].slots
               /\ slot[h].w = sync_time[h].w
               /\ slot[h].t = sync_time[h].t + hop[h] * SLOT_SIZE
          /\ kstat[h].slots <= SeqLen - 1
          /\ (kstate[h] = "LookingForSync" /\ pc[h] # "off") => hop[h] = 0)
  /\ [][\A h \in Half :
          /\ (kstate[h] = "Synchronized" /\ hop'[h] # hop[h]) =>
               IF hop[h] + 2 < SeqLen
               THEN kstate'[h] = "Synchronized" /\ hop'[h] = hop[h] + 2
               ELSE kstate'[h] = "LookingForSync" /\ hop'[h] = 0
          /\ (kstate[h] = "Synchronized" /\ kstate'[h] = "LookingForSync") =>
               /\ hop'[h] = 0
               /\ FirstIndex(h) + kstat'[h].slots = SeqLen]_vars

\* C10 witness: both halves are back in LookingForSync after an episode that
\* ran to the end of the frame.
C10_Witness ==
  /\ kstate[Right] = "LookingForSync" /\ kstat[Right].slots = SeqLen - 1
  /\ kstate[Left] = "LookingForSync" /\ kstat[Left].slots = SeqLen - 2

\* number of slots assigned to a half in a frame
AssignedSlots(h) == (SeqLen - FirstIndex(h) + 1) \div 2

C11_AfterTimeout ==
  \E h \in Half : pc[h] = "k_tx" /\ kstat[h].ack = "timeout" /\ kstat[h].sends > 1

\* the dongle waits in the recv of a slot of parity b
DongleInRecv(b) == pc[Dongle] = "d_recv" /\ hop[Dongle] % 2 = b

RecvStarts == drv.op = "none" /\ drv'.op = "recv"
RecvReturns == drv.op = "recv" /\ drv'.op = "none" /\ drv'.ret.kind \in {"Ok", "Err"}
RecvCancelled == drv.op = "recv" /\ drv'.op = "none" /\ drv'.ret.kind = "Cancelled"
Issued(d, t) == \E i \in 1 .. Len(d.tasks) : d.tasks[i].task = t

\* C13: recv issues START with the radio in RxIdle; it returns only on a
\* poll that finds END set; it returns Ok exactly when CRCSTATUS is set and
\* Err exactly when it is not; in both cases the buffer holds the frame that
\* was on the air; and the return writes no task, so nothing is retried.
C13_RecvContract ==
  [][/\ RecvStarts =>
          /\ drv'.tasks[Len(drv'.tasks)] = [task |-> "START", at |-> "RxIdle"]
          /\ drv'.state = "Rx"
     /\ RecvReturns =>
          /\ "end" \in drv.events
          /\ "end" \notin drv'.events
          /\ drv'.ret.kind = "Ok" <=> drv.crcstatus
          /\ drv'.ret.kind = "Err" <=> ~drv.crcstatus
          /\ drv'.ret.frame = drv.nframe
          /\ drv'.buf = drv.nframe
          /\ drv'.tasks = << >>
          /\ drv'.state = "RxIdle"]_vars

\* a recv has returned Err with the failed frame in the buffer
C13_Witness ==
  /\ drv.op = "none"
  /\ drv.ret.kind = "Err"
  /\ drv.ret.frame = drv.nframe
  /\ drv.nframe > 0

\* C14: dropping a pending recv, END fired or not, issues STOP and leaves
\* the radio in RxIdle with no transfer; the buffer is written only while a
\* recv is pending; a recv that completes defuses the guard and issues no
\* STOP.
C14_DropStops ==
  /\ [][/\ RecvCancelled =>
             /\ Issued(drv', "STOP")
             /\ drv'.state = "RxIdle"
             /\ drv'.dma = "none"
             /\ drv'.rxing = 0
        /\ drv'.buf # drv.buf => drv.op = "recv" /\ drv'.op = "recv"
        /\ RecvReturns => ~drv'.guard /\ ~Issued(drv', "STOP")]_vars
  /\ [](drv.op = "none" => drv.dma = "none" /\ ~drv.guard)

\* a recv was dropped after END had fired and before the task was polled
C14_Witness ==
  /\ drv.op = "none"
  /\ drv.ret.kind = "Cancelled"
  /\ "end" \in drv.events
  /\ Issued(drv, "STOP")
  /\ drv.state = "RxIdle"

\* a recv was dropped in the middle of a frame
C14_DroppedMidFrame ==
  /\ drv.op = "none"
  /\ drv.ret.kind = "Cancelled"
  /\ drv.capture = drv.nframe
  /\ drv.buf # drv.nframe

\* C15: between operations (after init and after recv, send or send_no_cca
\* has returned) no shortcut is enabled in SHORTS.
C15_ShortsCleared == drv.op = "none" => drv.shorts = {}

\* what holds instead: send and send_no_cca return with SHORTS clear, and
\* so does init
C15_SendsClearShorts ==
  /\ drv.op = "none" /\ drv.ret.kind \in {"none", "Sent", "SentNoCca"} => drv.shorts = {}
  /\ DriverInit.shorts = {}

SendReturns == drv.op = "send" /\ drv'.op = "none"

\* C16: in send the radio leaves RxIdle only on a CCA that reported idle,
\* and send itself writes neither START nor TXEN; a poll that finds CCABUSY
\* (and no PHYEND) writes CCASTART and nothing else, the radio still in
\* RxIdle; send returns only on a poll that finds PHYEND, so only after an
\* idle CCA; and with a channel that is idle in the end every send returns.
C16_CcaSend ==
  /\ [](drv.op = "send" /\ drv.state # "RxIdle" => drv.idle)
  /\ [][/\ drv'.op = "send" => ~Issued(drv', "START") /\ ~Issued(drv', "TXEN")
        /\ drv.op = "send" /\ drv'.state = "Tx" /\ drv.state # "Tx" =>
             drv.cca /\ "ccaidle" \in drv'.events
        /\ drv.op = "send" /\ drv'.tasks # drv.tasks /\ drv'.tasks # << >>
             => /\ "ccabusy" \in drv.events
                /\ "phyend" \notin drv.events
                /\ drv'.tasks = << [task |-> "CCASTART", at |-> "RxIdle"] >>
                /\ drv'.op = "send"
        /\ drv.op = "send" /\ "ccabusy" \in drv.events /\ "phyend" \notin drv.events
             /\ drv'.events # drv.events /\ "ccabusy" \notin drv'.events
             => /\ drv'.tasks = << [task |-> "CCASTART", at |-> "RxIdle"] >>
                /\ drv'.cca
                /\ drv'.state = "RxIdle"
        /\ SendReturns =>
             /\ "phyend" \in drv.events
             /\ drv.idle
             /\ drv'.ret.kind = "Sent"
             /\ drv'.ret.ts = 0 - drv.ops]_vars
  /\ (drv.op = "send") ~> (drv.op = "none" /\ drv.ret.kind = "Sent")

\* a send has returned after a CCA that reported busy
C16_Witness ==
  /\ drv.op = "none"
  /\ drv.ret.kind = "Sent"
  /\ drv.busy > 0
  /\ drv.idle

\* a send is parked while the channel is busy: CCA restarted, nothing sent
C16_BusyParked ==
  /\ drv.op = "send"
  /\ drv.busy = MaxBusy
  /\ drv.cca
  /\ ~drv.idle
  /\ drv.state = "RxIdle"

\* C17: PACKETPTR, START and CCASTART are written only with the radio in
\* RxIdle or TxIdle; between operations (a cancelled recv included) no
\* transfer, reception or channel assessment is active; and a transfer
\* belongs to the one operation in flight.
C17_OneTransfer ==
  /\ \A i \in 1 .. Len(drv.tasks) :
       drv.tasks[i].task \in {"PACKETPTR", "START", "CCASTART"}
         => drv.tasks[i].at \in {"RxIdle", "TxIdle"}
  /\ drv.op = "none" =>
       /\ drv.dma = "none"
       /\ ~drv.cca
       /\ drv.rxing = 0
       /\ drv.state \notin {"Rx", "Tx", "RxRu", "TxRu"}
  /\ drv.dma = "rx" => drv.op = "recv" /\ drv.state = "Rx"
  /\ drv.dma = "tx" => drv.op \in {"send", "send_no_cca"} /\ drv.state = "Tx"
  /\ drv.op \notin {"panic", "hung"}

\* after a cancelled recv the next operation has started its transfer
C17_Witness ==
  /\ drv.ret.kind = "Cancelled"
  /\ drv.op \in {"recv", "send_no_cca"}
  /\ Issued(drv, "PACKETPTR")
  /\ Issued(drv, "START")
  /\ drv.dma # "none"

(***************************************************************************)
(* The selectors                                                           *)
(***************************************************************************)

\* C18: for both selectors, after any calls of new, next_channel and reset:
\* state is an index of the sequence and state + 1 fits in 8 bits;
\* current_channel is the entry at state; is_initial_state holds exactly at
\* state 0; reset leaves state 0, once or repeated; and L calls of
\* next_channel from a state lead back to it, fewer do not.
C18_SelectorLaws ==
  /\ sel.state \in 0 .. SelLen(sel.which) - 1
  /\ sel.state + 1 < U8
  /\ SelLen(sel.which) < U8
  /\ SelChannel(sel.which, sel.state) = SelSeq(sel.which)[sel.state + 1]
  /\ SelInitial(sel.which, sel.state) <=> sel.state = 0
  /\ sel.last \in {"new", "reset"} => sel.state = 0 /\ SelInitial(sel.which, sel.state)
  /\ sel.calls = SelLen(sel.which) => sel.state = sel.from
  /\ sel.calls > 0 /\ sel.calls < SelLen(sel.which) => sel.state # sel.from
  /\ sel.calls >= 0 => sel.state = (sel.from + sel.calls) % SelLen(sel.which)

\* the 167-entry selector has gone round from its last state
C18_Witness ==
  /\ sel.which = "radio_protocol"
  /\ sel.from = SeqLen - 1
  /\ sel.calls = SeqLen
  /\ sel.state = SeqLen - 1

\* reset was called on a selector that is not in state 0
C18_ResetReached ==
  /\ sel.last = "reset"
  /\ sel.from # 0
  /\ sel.calls < 0

\* C19 as stated: with the 100-entry sequence, 100 next_channel calls from
\* state 0 leave is_initial_state true and current_channel = SEQ[0] = 47.
C19_HopCycleAsStated ==
  sel.which = "dongle_tasks" /\ sel.from = 0 /\ sel.calls = DongleTasks_SeqLen
    => /\ DongleTasks_is_initial_state(sel.state)
       /\ DongleTasks_current_channel(sel.state) = DongleTasks_CHANNEL_HOPPING_SEQUENCE[1]
       /\ DongleTasks_current_channel(sel.state) = 47

\* C19: with the 100-entry sequence, 100 next_channel calls from state 0
\* leave is_initial_state true and current_channel = SEQ[0], which is 84
\* (47 is SEQ[1]).
C19_HopCycle ==
  sel.which = "dongle_tasks" /\ sel.from = 0 /\ sel.calls = DongleTasks_SeqLen
    => /\ DongleTasks_is_initial_state(sel.state)
       /\ DongleTasks_current_channel(sel.state) = DongleTasks_CHANNEL_HOPPING_SEQUENCE[1]
       /\ DongleTasks_current_channel(sel.state) = 84
       /\ DongleTasks_CHANNEL_HOPPING_SEQUENCE[2] = 47

\* the 100-entry selector has made 100 next_channel calls from state 0
C19_Witness ==
  /\ sel.which = "dongle_tasks"
  /\ sel.from = 0
  /\ sel.calls = DongleTasks_SeqLen
  /\ sel.last = "next_channel"

Distance(a, b) == IF a >= b THEN a - b ELSE b - a

\* C20: in both sequences the channel of a slot and the channel of the next
\* slot, cyclically, differ by more than one.
C20_AntiAdjacency ==
  Distance(SelChannel(sel.which, sel.state),
           SelChannel(sel.which, SelNext(sel.which, sel.state))) > 1

\* what holds instead: the 100-entry sequence has no adjacent neighbours,
\* and the 167-entry sequence has them at indices 14 and 15 only (80, 81)
C20_OnePairAdjacent ==
  /\ \A i \in 0 .. DongleTasks_SeqLen - 1 :
       Distance(DongleTasks_current_channel(i),
                DongleTasks_current_channel(DongleTasks_next_channel(i))) > 1
  /\ \A i \in 0 .. SeqLen - 1 :
       Distance(current_channel(i), current_channel(next_channel(i))) <= 1 <=> i = 14
  /\ current_channel(14) = 80
  /\ current_channel(15) = 81

\* times the channel c is programmed in the 167-entry sequence
Occurrences(c) == Cardinality({i \in 1 .. SeqLen : CHANNEL_HOPPING_SEQUENCE[i] = c})

\* C21: every channel of the band 0..=83 occurs exactly twice in the
\* 167-entry sequence, so a selector that has gone through one frame has
\* visited each channel twice.
C21_EveryChannelTwice ==
  sel.which = "radio_protocol" /\ sel.from = 0 /\ sel.calls = SeqLen
    => /\ \A c \in 0 .. BAND_MAX : Occurrences(c) = 2
       /\ SeqLen = 2 * (BAND_MAX + 1)

\* what holds instead: 167 entries, every channel of the band twice except
\* 73, which is programmed once (its second entry is commented out)
C21_AllTwiceButOne ==
  /\ SeqLen = 2 * (BAND_MAX + 1) - 1
  /\ \A c \in 0 .. BAND_MAX : Occurrences(c) = IF c = 73 THEN 1 ELSE 2
  /\ \A i \in 1 .. SeqLen : CHANNEL_HOPPING_SEQUENCE[i] \in 0 .. BAND_MAX

(***************************************************************************)
(* Frequencies and modes                                                   *)
(***************************************************************************)

\* C22: set_freqeuency(f) with f > 100 panics and leaves FREQUENCY and
\* needs_enable as they were; with f <= 100 it writes f to FREQUENCY and
\* sets needs_enable.
C22_InvalidFrequency ==
  [][\A f \in AnyFreqs :
       Radio_set_freqeuency(f) =>
         /\ f > 100 =>
              /\ drv'.op = "panic"
              /\ drv'.frequency = drv.frequency
              /\ drv'.needs_enable = drv.needs_enable
              /\ drv'.tuned = drv.tuned
         /\ f <= 100 =>
              /\ drv'.op = "none"
              /\ drv'.frequency = f
              /\ drv'.needs_enable]_vars

\* set_freqeuency has panicked on a radio that was tuned and enabled, and
\* has left it so
C22_Witness ==
  /\ drv.op = "panic"
  /\ ~drv.needs_enable
  /\ drv.frequency = 47
  /\ drv.tuned = 47

\* set_freqeuency has accepted the highest frequency
C22_LimitAccepted == drv.op = "none" /\ drv.frequency = MAX_FREQUENCY /\ drv.needs_enable

\* C30: RXEN is never written with the radio in TxIdle; a change to receive
\* that finds the radio in TxIdle writes DISABLE, waits for Disabled and
\* only then writes RXEN; and no step takes the radio from TxIdle to the
\* receive side without these two tasks.
C30_NoDirectRamp ==
  /\ [](\A i \in 1 .. Len(drv.tasks) :
          drv.tasks[i].task = "RXEN" => drv.tasks[i].at \in {"Disabled", "RxIdle"})
  /\ [][drv.state = "TxIdle" /\ drv'.state \in {"RxRu", "RxIdle", "Rx"} =>
          /\ Len(drv'.tasks) >= 2
          /\ drv'.tasks[1] = [task |-> "DISABLE", at |-> "TxIdle"]
          /\ drv'.tasks[2] = [task |-> "RXEN", at |-> "Disabled"]
          /\ "disabled" \in drv'.events]_vars

\* a recv that found the radio in TxIdle has gone through Disabled
C30_Witness ==
  /\ drv.op = "recv"
  /\ drv.state = "Rx"
  /\ Len(drv.tasks) >= 2
  /\ drv.tasks[1] = [task |-> "DISABLE", at |-> "TxIdle"]
  /\ drv.tasks[2] = [task |-> "RXEN", at |-> "Disabled"]

\* C23: every entry of the runners' sequence is a frequency set_freqeuency
\* accepts (0..=100), every frequency a runner has set is one, and no
\* runner is ever stopped by the invalid-frequency panic.
C23_ChannelsValid ==
  /\ \A d \in Dev :
       /\ pc[d] # "panic"
       /\ radio[d].freq \in 0 .. 100
       /\ call[d].op # "none" =>
            /\ call[d].freq \in 0 .. 100
            /\ call[d].freq = current_channel(call[d].idx)
  /\ \A i \in 0 .. SeqLen - 1 : current_channel(i) \in 0 .. 100

\* a runner is on the highest channel its selector emits
C23_Witness ==
  \E d \in Dev :
    /\ call[d].op # "none"
    /\ call[d].freq = BAND_MAX
    /\ radio[d].freq = BAND_MAX
    /\ \A i \in 0 .. SeqLen - 1 : current_channel(i) <= call[d].freq

(***************************************************************************)
(* The packet                                                              *)
(***************************************************************************)

\* C24: in every state of a Packet that has not panicked, after new,
\* copy_from_slice, set_len and a completed receive: the header is the
\* payload length plus 2 with the payload length in 0..125, len() does not
\* underflow, and the payload view is the bytes 1..=len, short of the CRC.
C24_PacketInvariant ==
  ~packet.panicked =>
    /\ ~LenUnderflows(packet)
    /\ Packet_len(packet) \in 0 .. 125
    /\ packet.buffer[1] = Packet_len(packet) + 2
    /\ DerefInRange(packet)
    /\ Len(Packet_deref(packet)) = Packet_len(packet)
    /\ Packet_len(packet) + 1 <= SIZE - CRC_LEN

\* what holds instead: the same of every packet whose header is 2 or more,
\* and a header below 2 is one the radio has received
C24_UnlessShortFrame ==
  ~packet.panicked =>
    /\ packet.buffer[1] >= 2 =>
         /\ Packet_len(packet) \in 0 .. 125
         /\ packet.buffer[1] = Packet_len(packet) + 2
         /\ DerefInRange(packet)
         /\ Packet_len(packet) + 1 <= SIZE - CRC_LEN
    /\ packet.buffer[1] < 2 =>
         /\ packet.last = "received"
         /\ LenUnderflows(packet)
         /\ Packet_len(packet) >= U8 - 2

\* C25: copy_from_slice(s) with |s| <= 125, on any packet: the payload view
\* is s, len() is |s| and the header is |s| + 2; for s = [0..=9], 10 and 12.
C25_RoundTrip ==
  [][\A src \in Slices :
       Len(src) <= 125 /\ Pkt_copy_from_slice(src) =>
         /\ ~packet'.panicked
         /\ Packet_deref(packet') = src
         /\ Packet_len(packet') = Len(src)
         /\ packet'.buffer[1] = Len(src) + 2
         /\ ~LenUnderflows(packet')
         /\ src = << 0, 1, 2, 3, 4, 5, 6, 7, 8, 9 >> =>
              Packet_len(packet') = 10 /\ packet'.buffer[1] = 12]_vars

\* [0..=9] has been copied into a packet that held something else
C25_Witness ==
  /\ packet.last = "copy_from_slice"
  /\ packet.ops > 1
  /\ ~packet.panicked
  /\ Packet_deref(packet) = << 0, 1, 2, 3, 4, 5, 6, 7, 8, 9 >>
  /\ packet.buffer[1] = 12
  /\ packet.buffer[12] # 0

\* C26: copy_from_slice(src) with |src| > 125 and set_len(n) with n > 125
\* panic and leave every byte of the buffer as it was.
C26_FailedCallsKeepPacket ==
  [][/\ \A src \in Slices :
          Len(src) > 125 /\ Pkt_copy_from_slice(src) =>
            packet'.panicked /\ packet'.buffer = packet.buffer
     /\ \A len \in Lens :
          len > 125 /\ Pkt_set_len(len) =>
            packet'.panicked /\ packet'.buffer = packet.buffer
     /\ packet'.panicked /\ ~packet.panicked =>
          /\ packet'.buffer = packet.buffer
          /\ packet'.last \in {"copy_from_slice", "set_len"}]_vars

\* set_len has panicked on a packet that holds [0..=9]
C26_Witness ==
  /\ packet.panicked
  /\ packet.last = "set_len"
  /\ packet.buffer[1] = 12
  /\ Packet_deref(packet) = SYNC_PAYLOAD

\* copy_from_slice has panicked on a packet that holds [0..=9]
C26_CopyPanicked ==
  /\ packet.panicked
  /\ packet.last = "copy_from_slice"
  /\ Packet_deref(packet) = SYNC_PAYLOAD

(***************************************************************************)
(* Timestamp widening                                                      *)
(***************************************************************************)

\* a <= b as unsigned 32 bit values, of residues
ULe(a, b) == (a >= 0 /\ b < 0) \/ ((a >= 0 <=> b >= 0) /\ a <= b)

\* a - b < 2^32, of instants
LessThanWrapApart(a, b) ==
  \/ a.w < b.w
  \/ a.w = b.w
  \/ a.w = b.w + 1 /\ a.t < b.t

Widened(h) == kstate[h] = "Synchronized" /\ kstat[h].wake # Zero

\* C27: for every now64 and every ts32 at or below the low 32 bits of
\* now64, the widened instant is at or before now64, less than 2^32 before
\* it, and has ts32 as its low 32 bits; so has the first slot's base.
C27_Widening ==
  \A h \in Half :
    Widened(h) /\ ULe(kstat[h].ts, kstat[h].wake.t) =>
      /\ AtOrBefore(sync_time[h], kstat[h].wake)
      /\ LessThanWrapApart(kstat[h].wake, sync_time[h])
      /\ sync_time[h].t = kstat[h].ts
      /\ sync_time[h].w = (IF kstat[h].ts >= 0 THEN HighWord(kstat[h].wake)
                           ELSE HighWord(kstat[h].wake) + 1)
      /\ AtOrBefore(slot[h], Plus(kstat[h].wake, 2 * SLOT_SIZE))

\* a capture in the upper half of the register was widened with an instant
\* whose low 32 bits are above it
C27_Witness ==
  \E h \in Half :
    /\ Widened(h)
    /\ kstat[h].ts = 0 - SLOT_SIZE
    /\ kstat[h].wake.t = 0 - 1
    /\ sync_time[h] = Instant(kstat[h].wake.w, 0 - SLOT_SIZE)

\* C28: for every now64 and ts32, a ts32 above the low 32 bits of now64
\* included, the widened sync_time is not after now64, and the first slot
\* is not 2^32 us late.
C28_NeverInFuture ==
  \A h \in Half :
    Widened(h) =>
      /\ AtOrBefore(sync_time[h], kstat[h].wake)
      /\ kstat[h].slots = 0 => AtOrBefore(slot[h], Plus(kstat[h].wake, 2 * SLOT_SIZE))

\* what the code does with a ts32 above the low 32 bits of now64: the
\* widened sync_time is 2^32 minus their distance after now64
C28_WrapPushesLate ==
  \A h \in Half :
    Widened(h) /\ ~ULe(kstat[h].ts, kstat[h].wake.t) =>
      /\ ~AtOrBefore(sync_time[h], kstat[h].wake)
      /\ sync_time[h].t = kstat[h].ts
      /\ LessThanWrapApart(sync_time[h], kstat[h].wake)

(***************************************************************************)
(* Slot parity of the module documentation                                 *)
(***************************************************************************)

\* the slot indices the module documentation gives a half
DocSlot(h, k) == IF is_right_half(h) THEN ~Odd(k) ELSE Odd(k)

\* C29: the right half calls send_no_cca only with its selector at an even
\* index and the left half only at an odd index.
C29_DocParity ==
  \A h \in Half :
    /\ call[h].op = "send_no_cca" => DocSlot(h, call[h].idx)
    /\ pc[h] = "k_tx" => DocSlot(h, hop[h])

(***************************************************************************)
(* STATE at the start of a driver operation                                *)
(***************************************************************************)

\* the values of STATE that Radio::state has an arm for
StateArms == {"Disabled", "RxIdle", "TxIdle", "TxDisable"}

\* C31: whenever the caller can start an operation (after init, a completed
\* or a cancelled recv, a completed send), STATE is Disabled, RxIdle, TxIdle
\* or TxDisable; the unreachable!() arm of Radio::state is never taken, and
\* no operation waits for a state that does not come.
C31_StateAtCall ==
  /\ drv.op = "none" => drv.state \in StateArms
  /\ Alive(drv)
  /\ drv.op = "none" => Radio_state(drv).state \in {"Disabled", "RxIdle", "TxIdle"}

\* C31 witness: send_no_cca has returned and the radio is still ramping
\* down, after a recv that was cancelled
C31_Witness ==
  /\ drv.op = "none"
  /\ drv.state = "TxDisable"
  /\ drv.ret.kind = "SentNoCca"
  /\ drv.ops >= 2

(***************************************************************************)
(* Interrupt enables                                                       *)
(***************************************************************************)

\* C32: an interrupt source of the radio is enabled only while an operation
\* is parked; the handler leaves every source masked when it wakes the task;
\* after an operation has completed or has been cancelled none is enabled.
C32_EnabledOnlyWhileParked ==
  /\ drv.op = "none" => drv.inten = {}
  /\ drv.woken => drv.inten = {}
  /\ drv.inten \subseteq {"end", "phyend", "ccabusy"}

\* what the driver keeps: the handler leaves every source masked, and
\* between operations PHYEND is never enabled; END (after a cancelled recv)
\* and CCABUSY (after a completed send) can be
C32_LeftEnabled ==
  /\ drv.woken => drv.inten = {}
  /\ drv.op = "none" => drv.inten \subseteq {"end", "ccabusy"}
  /\ (drv.op = "none" /\ drv.ret.kind = "none") => drv.inten = {}

(***************************************************************************)
(* Configuration setters                                                   *)
(***************************************************************************)

\* what a setter leaves alone: STATE and the rest of the peripheral
SamePeripheral(a, b) ==
  /\ a.state = b.state /\ a.shorts = b.shorts /\ a.events = b.events
  /\ a.inten = b.inten /\ a.dma = b.dma /\ a.tuned = b.tuned /\ a.op = b.op

\* C33: set_channel, set_freqeuency, set_cca and set_txpower set
\* needs_enable, set_sfd leaves it as it is, none of them changes STATE, and
\* a second set_channel(c) changes nothing that the first has not changed.
C33_Setters ==
  [][/\ \A channel \in Channels :
          Radio_set_channel(channel) =>
            /\ drv'.needs_enable /\ drv'.frequency = channel
            /\ SamePeripheral(drv, drv')
            /\ set_channel(drv', channel) = drv'
     /\ \A f \in Freqs :
          Radio_set_freqeuency(f) =>
            drv'.needs_enable /\ drv'.frequency = f /\ SamePeripheral(drv, drv')
     /\ \A cca \in Ccas :
          Radio_set_cca(cca) =>
            drv'.needs_enable /\ drv'.ccactrl = cca /\ SamePeripheral(drv, drv')
     /\ \A power \in TxPowers :
          Radio_set_txpower(power) =>
            drv'.needs_enable /\ drv'.txpower = power /\ SamePeripheral(drv, drv')
     /\ \A sfd \in Sfds :
          Radio_set_sfd(sfd) =>
            /\ drv'.needs_enable = drv.needs_enable /\ drv'.sfd = sfd
            /\ SamePeripheral(drv, drv')]_vars

\* C33 witness: between two operations, with the radio left in RXIDLE and
\* enabled, the delimiter was changed and needs_enable is still false
C33_Witness ==
  /\ drv.op = "none"
  /\ drv.state = "RxIdle"
  /\ drv.sfd # DEFAULT_SFD
  /\ ~drv.needs_enable
  /\ drv.frequency \in Channels
  /\ drv.tuned = drv.frequency

(***************************************************************************)
(* The ADDRESS capture                                                     *)
(***************************************************************************)

AnySendReturns == drv.op \in {"send", "send_no_cca"} /\ drv'.op = "none"

\* C34: recv returns the capture made at the ADDRESS of the frame whose END
\* completed it, send and send_no_cca the capture made at the ADDRESS of the
\* frame they sent; from END or PHYEND to the read of the capture register
\* no other ADDRESS is captured, after a cancelled recv too.
C34_CaptureOfCompletingFrame ==
  /\ [][/\ RecvReturns => drv'.ret.ts = drv'.ret.frame /\ drv'.ret.ts = drv.capture
        /\ AnySendReturns => drv'.ret.ts = 0 - drv.ops /\ drv'.ret.ts = drv.capture]_vars
  /\ []((drv.op = "recv" /\ "end" \in drv.events) =>
          drv.capture = drv.buf /\ drv.rxing = 0 /\ drv.state # "Rx")
  /\ []((drv.op \in {"send", "send_no_cca"} /\ "phyend" \in drv.events) =>
          drv.capture = 0 - drv.ops /\ drv.state \notin {"Rx", "Tx"})

\* C34 witness: after a recv was cancelled, the next recv has returned the
\* second frame of the air with that frame's capture
C34_Witness ==
  /\ drv.op = "none"
  /\ drv.ops = 2
  /\ drv.ret = [kind |-> "Ok", frame |-> 2, ts |-> 2]
  /\ drv.capture = 2

(***************************************************************************)
(* The sync sentinel                                                       *)
(***************************************************************************)

OnAir(x) == air[x].phase # "none"

\* C35: a half leaves LookingForSync for Synchronized only on a frame with
\* good CRC that carries the sync sentinel, received on SEQ[0]; the only
\* frames that carry the sentinel are those the dongle sends with its
\* selector at 0; a half's frame is the one byte of its selector state and
\* an ack is [10..=19], and neither equals the sentinel.
C35_OnlyBeaconAnchors ==
  /\ [][\A h \in Half :
          (kstate[h] = "LookingForSync" /\ kstate'[h] = "Synchronized") =>
            /\ radio[h].ev.kind = "end" /\ radio[h].ev.crc
            /\ radio[h].ev.payload = SYNC_PAYLOAD
            /\ radio[h].freq = current_channel(reset)]_vars
  /\ [](\A h \in Half :
          OnAir(h) =>
            /\ air[h].payload = copy_from_slice(<< call[h].idx >>)
            /\ Len(air[h].payload) = 1
            /\ air[h].payload # SYNC_PAYLOAD)
  /\ [](OnAir(Dongle) =>
          /\ air[Dongle].payload \in {SYNC_PAYLOAD, ACK_PAYLOAD}
          /\ air[Dongle].payload = SYNC_PAYLOAD =>
               pc[Dongle] = "d_sync_tx" /\ is_initial_state(hop[Dongle]))
  /\ [](ACK_PAYLOAD # SYNC_PAYLOAD)

\* C35 witness: the right half, still looking for sync on the beacon channel,
\* has received something that is not the beacon while the left half, in
\* sync, is past its slot on that channel late in the frame
C35_Witness ==
  /\ kstate[Right] = "LookingForSync"
  /\ kstat[Right].others > 0
  /\ kstate[Left] = "Synchronized"
  /\ hop[Left] > SeqLen - 9
  /\ current_channel(SeqLen - 9) = current_channel(reset)

(***************************************************************************)
(* Wake-ups                                                                *)
(***************************************************************************)

\* the event the pending operation waits for
Awaited == IF drv.op = "recv" THEN "end" ELSE "phyend"
Pending == drv.op \in {"recv", "send", "send_no_cca"}

\* C36: once the awaited event of a pending recv, send or send_no_cca is
\* set, whenever that happens, the task is in its poll, or about to be
\* polled, or the interrupt is pending; the operation then completes (a recv
\* unless it is dropped); and an operation completes only on a poll that
\* finds its own event, whatever woke the task.
C36_NoLostWakeup ==
  /\ []((Pending /\ Awaited \in drv.events) =>
          \/ drv.woken
          \/ drv.poll # "parked"
          \/ Awaited \in drv.inten)
  /\ [][/\ (drv.op = "recv" /\ drv'.op = "none" /\ drv'.ret.kind # "Cancelled")
             => "end" \in drv.events /\ drv.state = "RxIdle"
        /\ (drv.op \in {"send", "send_no_cca"} /\ drv'.op = "none")
             => "phyend" \in drv.events /\ drv.state \in {"TxDisable", "Disabled"}]_vars
  /\ (Pending /\ Awaited \in drv.events) ~> (drv.op = "none")
  /\ (drv.op \in {"send", "send_no_cca"}) ~> (drv.op = "none")

\* C36 witness: the handler has masked every source on END, taken through
\* the enable a cancelled recv left, and PHYEND of the frame has come after
\* that with send_no_cca parked
C36_Witness ==
  /\ drv.op = "send_no_cca"
  /\ drv.poll = "parked"
  /\ drv.woken
  /\ drv.inten = {}
  /\ drv.ret.kind = "Cancelled"
  /\ "phyend" \in drv.events

(***************************************************************************)
(* Re-enabling after a change of frequency                                 *)
(***************************************************************************)

\* position of the first write of task t in the log of the step, 0 if none
FirstIssue(d, t) ==
  IF Issued(d, t)
  THEN CHOOSE i \in 1 .. Len(d.tasks) :
         /\ d.tasks[i].task = t
         /\ \A j \in 1 .. i - 1 : d.tasks[j].task # t
  ELSE 0

OpStarts == drv.op = "none" /\ drv'.op \in {"recv", "send", "send_no_cca"}

\* C37: an operation that starts with needs_enable set writes RXEN (recv,
\* send) or TXEN (send_no_cca) before PACKETPTR, START or CCASTART, whatever
\* state the radio is in; a transfer or channel assessment in progress runs
\* on the frequency last written; and needs_enable is false after
\* put_in_rx_mode and put_in_tx_mode, so throughout every operation.
C37_ReenableAfterRetune ==
  /\ [][/\ (OpStarts /\ drv.needs_enable) =>
             /\ drv'.op \in {"recv", "send"} =>
                  /\ Issued(drv', "RXEN")
                  /\ FirstIssue(drv', "RXEN") < FirstIssue(drv', "PACKETPTR")
             /\ drv'.op = "send_no_cca" =>
                  /\ Issued(drv', "TXEN")
                  /\ FirstIssue(drv', "TXEN") < FirstIssue(drv', "PACKETPTR")
        /\ OpStarts => drv'.tuned = drv.frequency /\ ~drv'.needs_enable
        /\ (Mode_put_in_rx_mode /\ Alive(drv')) =>
             ~drv'.needs_enable /\ drv'.state = "RxIdle" /\ drv'.tuned = drv.frequency
        /\ (Mode_put_in_tx_mode /\ Alive(drv')) =>
             ~drv'.needs_enable /\ drv'.state = "TxIdle" /\ drv'.tuned = drv.frequency]_vars
  /\ []((drv.dma # "none" \/ drv.cca) => drv.tuned = drv.frequency)
  /\ [](drv.op \in {"recv", "send", "send_no_cca"} => ~drv.needs_enable)

\* C37 witness: a recv that found the radio in RXIDLE after a change of
\* frequency has written RXEN there, and receives on the new frequency
C37_Witness ==
  /\ drv.op = "recv"
  /\ drv.tasks # << >>
  /\ drv.tasks[1] = [task |-> "RXEN", at |-> "RxIdle"]
  /\ drv.ret.kind \in {"Ok", "Err", "Cancelled"}
  /\ drv.dma = "rx"
  /\ drv.tuned = 47

(***************************************************************************)
(* Slot time and selector                                                  *)
(***************************************************************************)

InSlotLoop(h) == kstate[h] = "Synchronized" /\ pc[h] \in {"k_delay", "k_tx", "k_ack_rx"}

\* C38: while the dongle has a recv armed, slot_start_time is the start of
\* the frame's beacon slot plus state * SLOT_SIZE; while a Synchronized half
\* waits for its slot, sends or waits for the ack, slot_start_time is
\* sync_time plus state * SLOT_SIZE; the dongle moves slot_start_time by one
\* slot with every next_channel, the wrap to 0 included, and a half that
\* stays Synchronized by two slots with its two.
C38_SlotLockedToSelector ==
  /\ [](pc[Dongle] \in {"d_recv", "d_ack_tx"} =>
          /\ ~is_initial_state(hop[Dongle])
          /\ slot[Dongle] = Plus(frame_start, hop[Dongle] * SLOT_SIZE))
  /\ [](\A h \in Half :
          InSlotLoop(h) =>
            /\ ~is_initial_state(hop[h])
            /\ slot[h] = Plus(sync_time[h], hop[h] * SLOT_SIZE)
            /\ (pc[h] = "k_tx" => call[h].idx = hop[h]))
  /\ [][/\ hop'[Dongle] # hop[Dongle] =>
             /\ hop'[Dongle] = next_channel(hop[Dongle])
             /\ slot'[Dongle] = Plus(slot[Dongle], SLOT_SIZE)
        /\ slot'[Dongle] # slot[Dongle] => hop'[Dongle] # hop[Dongle]
        /\ \A h \in Half :
             (InSlotLoop(h) /\ kstate'[h] = "Synchronized") =>
               \/ hop'[h] = hop[h] /\ slot'[h] = slot[h]
               \/ /\ hop'[h] = next_channel(next_channel(hop[h]))
                  /\ slot'[h] = Plus(Plus(slot[h], SLOT_SIZE), SLOT_SIZE)]_vars

\* C38 witness: the left half sends in the last slot of the frame, where the
\* dongle has its recv armed
C38_Witness ==
  /\ pc[Dongle] = "d_recv"
  /\ hop[Dongle] = SeqLen - 1
  /\ pc[Left] = "k_tx"
  /\ hop[Left] = SeqLen - 1
  /\ slot[Left] = Plus(sync_time[Left], (SeqLen - 1) * SLOT_SIZE)


\* the scheduled start of the next beacon has come: the dongle left the slot
\* loop of the frame and its delay_until(slot_start_time) is due
NextBeaconDue ==
  /\ frames = MaxFrames
  /\ pc[Dongle] = "d_delay"
  /\ AtOrBefore(slot[Dongle], Mono(Dongle))

\* half h found the beacon of the frame (it has been Synchronized in it)
Anchored(h) == kstat[h].wake # Zero

\* half h waits for a beacon: LookingForSync, receive armed on SEQ[0]
Listening(h) ==
  /\ kstate[h] = "LookingForSync"
  /\ pc[h] = "k_sync_rx"
  /\ hop[h] = reset
  /\ radio[h].mode = "rx"
  /\ radio[h].freq = current_channel(reset)

\* C39: a half that was Synchronized in a frame is back in LookingForSync with
\* a receive armed on SEQ[0] before the scheduled start of the next beacon,
\* so that it can find every beacon and transmit in every frame.
C39_BackBeforeNextBeacon ==
  \A h \in Half : NextBeaconDue /\ Anchored(h) => Listening(h)

\* the same for the halves whose sync_time is not after the instant they
\* computed it at: these have left the slot loop when the next beacon is due
C39_BackWhenAnchoredInPast ==
  \A h \in Half :
    NextBeaconDue /\ Anchored(h) /\ AtOrBefore(sync_time[h], kstat[h].wake)
      => Listening(h) /\ kstat[h].sends > 0

\* the next beacon is due while a half still waits for its first slot, one
\* wrap of the 32-bit timestamp ahead, and has sent nothing
C39_StuckInDelay ==
  \E h \in Half :
    /\ NextBeaconDue
    /\ kstate[h] = "Synchronized" /\ pc[h] = "k_delay"
    /\ kstat[h].sends = 0
    /\ ~AtOrBefore(sync_time[h], kstat[h].wake)

\* the next beacon is due and a half that sent in the frame listens on SEQ[0]
C39_BackWitness ==
  \E h \in Half : NextBeaconDue /\ Anchored(h) /\ Listening(h) /\ kstat[h].sends > 0

====
